---------------------------- MODULE Spec2Model ----------------------------
(***************************************************************************)
(* Model of the Revora revenue-share contract (src/src/lib.rs).            *)
(*                                                                         *)
(* The contract's persistent storage is one variable per DataKey variant;  *)
(* every public entry point is one action.  A call either returns Ok,      *)
(* returns a RevoraError, or traps ("Panic": a failed require_auth, a      *)
(* panic!, an unwrap on None, a failing token transfer).  The Soroban host *)
(* discards every write of a call that does not return Ok.                 *)
(***************************************************************************)
EXTENDS Integers, Sequences, FiniteSets, TLC

\* ------------------------------------------------------------ universe
\* Addresses the calls are made with.
Issuers  == {"I", "J"}
Tokens   == {"T", "U"}
Assets   == {"P", "Q"}
Holders  == {"H", "G"}
Admins   == {"A", "S"}
Principals == Issuers \cup Holders \cup Admins
None     == "None"

\* Bounds of the model.
MaxTime     == 1
MaxOffers   == 2
MaxPeriodId == 2
MaxReports  == 1
MaxAudit    == 3
MaxBatch    == 51
MaxList     == 21

PeriodIds == 1..MaxPeriodId
Times     == 0..MaxTime

\* Program constants.
MAX_CLAIM_PERIODS == 50
BPS_DENOMINATOR   == 10000
MAX_PAGE_LIMIT    == 20
\* Stand-ins for i128::MAX and u64::MAX, scaled to the checker's integers.
\* i128::MAX = 2^127 - 1 ends in ...5727 and i128::MIN in ...5728: the stand-in
\* keeps these residues modulo 10000, on which rounding near the limits depends.
I128_MAX == 1000005727
U64_MAX  == 2000000000

Modes == {"Truncation", "RoundHalfUp"}

\* ------------------------------------------------------------ state
VARIABLES
    offerItem,              \* OfferCount/OfferItem: issuer -> sequence of offerings
    offeringIssuer,         \* OfferingIssuer: token -> issuer of record | None
    pendingIssuerTransfer,  \* PendingIssuerTransfer: token -> new issuer | None
    periodRevenue,          \* PeriodRevenue: token -> (period_id -> amount)
    periodDepositTime,      \* PeriodDepositTime: token -> (period_id -> timestamp)
    periodEntry,            \* PeriodCount/PeriodEntry: token -> sequence of period ids
    paymentToken,           \* PaymentToken: token -> asset | None
    holderShare,            \* HolderShare: (token, holder) -> bps (0 when unset)
    lastClaimedIdx,         \* LastClaimedIdx: (token, holder) -> next index (0 when unset)
    claimDelaySecs,         \* ClaimDelaySecs: token -> seconds (0 when unset)
    roundingMode,           \* RoundingMode: (issuer, token) -> mode (Truncation when unset)
    concentrationLimit,     \* ConcentrationLimit: (issuer, token) -> <<>> | <<config>>
    currentConcentration,   \* CurrentConcentration: (issuer, token) -> <<>> | <<bps>>
    auditSummary,           \* AuditSummary: (issuer, token) -> <<>> | <<summary>>
    revenueReports,         \* RevenueReports: (issuer, token) -> (period_id -> <<amount, ts>>)
    blacklist,              \* Blacklist: token -> set of investors
    admin,                  \* Admin | None
    safety,                 \* Safety | None
    paused,                 \* Paused (false when unset)
    frozen,                 \* Frozen (false when unset)
    testnetMode,            \* TestnetMode (false when unset)
    now,                    \* env.ledger().timestamp()
    last,                   \* the last call: entry point, result, what it returned and emitted
    claimHist               \* history: (token, holder) -> (period index -> what was paid for it)

registry  == <<offerItem, offeringIssuer, pendingIssuerTransfer>>
ledger    == <<periodRevenue, periodDepositTime, periodEntry, paymentToken>>
holders   == <<holderShare, lastClaimedIdx>>
guardrail == <<claimDelaySecs, roundingMode, concentrationLimit, currentConcentration, blacklist>>
audit     == <<auditSummary, revenueReports>>
lifecycle == <<admin, safety, paused, frozen, testnetMode>>
\* Everything the contract persists.
storage   == <<registry, ledger, holders, guardrail, audit, lifecycle>>
vars      == <<storage, now, last, claimHist>>

EmptyMap == [x \in {} |-> 0]

Init ==
    /\ offerItem = [i \in Issuers |-> <<>>]
    /\ offeringIssuer = [t \in Tokens |-> None]
    /\ pendingIssuerTransfer = [t \in Tokens |-> None]
    /\ periodRevenue = [t \in Tokens |-> EmptyMap]
    /\ periodDepositTime = [t \in Tokens |-> EmptyMap]
    /\ periodEntry = [t \in Tokens |-> <<>>]
    /\ paymentToken = [t \in Tokens |-> None]
    /\ holderShare = [k \in Tokens \X Holders |-> 0]
    /\ lastClaimedIdx = [k \in Tokens \X Holders |-> 0]
    /\ claimDelaySecs = [t \in Tokens |-> 0]
    /\ roundingMode = [k \in Issuers \X Tokens |-> "Truncation"]
    /\ concentrationLimit = [k \in Issuers \X Tokens |-> <<>>]
    /\ currentConcentration = [k \in Issuers \X Tokens |-> <<>>]
    /\ auditSummary = [k \in Issuers \X Tokens |-> <<>>]
    /\ revenueReports = [k \in Issuers \X Tokens |-> EmptyMap]
    /\ blacklist = [t \in Tokens |-> {}]
    /\ admin = None
    /\ safety = None
    /\ paused = FALSE
    /\ frozen = FALSE
    /\ testnetMode = FALSE
    /\ now = 0
    /\ last = [op |-> "init", result |-> "Ok", payout |-> 0,
               claimed |-> <<>>, events |-> <<>>]
    /\ claimHist = [k \in Tokens \X Holders |-> EmptyMap]

\* What a call that is not a successful claim leaves in `last` (a claim also
\* leaves the amount it returned and the period indices it processed).
Call(op, result, events) ==
    [op |-> op, result |-> result, payout |-> 0,
     claimed |-> <<>>, events |-> events]

Min(a, b) == IF a < b THEN a ELSE b
Max(a, b) == IF a > b THEN a ELSE b

\* ------------------------------------------------------------ helpers
\* addr.require_auth(): passes when the invocation is authorized by addr.
require_auth(addr, auth) == addr = auth

\* Fault: the entry points do not look at Frozen.
frozen_check_skipped == TRUE

require_not_frozen == ~frozen
require_not_paused == ~paused

\* Fault: the contract behaves as if testnet mode were always on.
testnet_mode_assumed == TRUE

is_testnet_mode == testnetMode
\* No entry point ever writes EventVersioningEnabled.
is_event_versioning_enabled == FALSE

get_current_issuer(token) == offeringIssuer[token]

get_offering_count(issuer) == Len(offerItem[issuer])

\* Index (from 1) of the first offering of `issuer` for `token`, 0 when none.
offering_index(issuer, token) ==
    LET hits == {i \in 1..Len(offerItem[issuer]) : offerItem[issuer][i].token = token}
    IN  IF hits = {} THEN 0 ELSE CHOOSE i \in hits : \A j \in hits : i <= j

\* The first matching offering as <<offering>>, or <<>>.
get_offering(issuer, token) ==
    IF offering_index(issuer, token) = 0 THEN <<>>
    ELSE <<offerItem[issuer][offering_index(issuer, token)]>>

\* The page of the issuer's offerings from index `start` (from 0): at most
\* `limit` of them, MAX_PAGE_LIMIT when limit is 0 or larger, and the index
\* of the next page as <<index>>, <<>> when nothing remains.
get_offerings_page(issuer, start, limit) ==
    LET count == get_offering_count(issuer)
        effective_limit == IF limit = 0 \/ limit > MAX_PAGE_LIMIT
                           THEN MAX_PAGE_LIMIT ELSE limit
        end == Min(start + effective_limit, count)
    IN  IF start >= count THEN [results |-> <<>>, next_cursor |-> <<>>]
        ELSE [results |-> SubSeq(offerItem[issuer], start + 1, end),
              next_cursor |-> IF end < count THEN <<end>> ELSE <<>>]

\* The tokens of the first page of the issuer's offerings.
list_offerings(issuer) ==
    LET page == get_offerings_page(issuer, 0, MAX_PAGE_LIMIT).results
    IN  [i \in 1..Len(page) |-> page[i].token]

get_rounding_mode(issuer, token) == roundingMode[issuer, token]

\* Fault: every holder is read as holding half of the revenue.
holder_share_fixed(token, holder) == 5000

get_holder_share(token, holder) == holderShare[token, holder]
get_period_count(token) == Len(periodEntry[token])

\* Fault: the blacklist is never consulted.
blacklist_unread(token, investor) == FALSE

is_blacklisted(token, investor) == investor \in blacklist[token]


\* ------------------------------------------------------------ arithmetic
\* Rust's `/` on signed integers: the quotient truncated toward zero (d > 0).
trunc_div(a, d) == IF a >= 0 THEN a \div d ELSE -((-a) \div d)

\* i128 arithmetic as the code requests it.
mul_overflows(a, b) == a * b > I128_MAX \/ a * b < -I128_MAX - 1
checked_mul_or_0(a, b) == IF mul_overflows(a, b) THEN 0 ELSE a * b
saturating_add_i128(a, b) == Min(a + b, I128_MAX)
saturating_sub_i128(a, b) == Max(a - b, -I128_MAX - 1)
saturating_add_u64(a, b) == Min(a + b, U64_MAX)

\* Fault: the product is divided by 1000 and the result is not clamped.
compute_share_wrong_scale(amount, revenue_share_bps, mode) ==
    trunc_div(checked_mul_or_0(amount, revenue_share_bps), 1000)

compute_share(amount, revenue_share_bps, mode) ==
    IF revenue_share_bps > 10000 THEN 0
    ELSE LET raw   == checked_mul_or_0(amount, revenue_share_bps)
             share == IF mode = "Truncation" THEN trunc_div(raw, 10000)
                      ELSE trunc_div(IF raw >= 0 THEN saturating_add_i128(raw, 5000)
                                     ELSE saturating_sub_i128(raw, 5000), 10000)
             lo    == Min(0, amount)
             hi    == Max(0, amount)
         IN  Min(Max(share, lo), hi)

\* ------------------------------------------------------------ offering registry
offer_total == Len(offerItem["I"]) + Len(offerItem["J"])

register_offering_result(issuer, token, revenue_share_bps, payout_asset, auth) ==
    IF ~require_not_frozen THEN "ContractFrozen"
    ELSE IF ~require_not_paused THEN "Panic"
    ELSE IF ~require_auth(issuer, auth) THEN "Panic"
    ELSE IF ~is_testnet_mode /\ revenue_share_bps > 10000 THEN "InvalidRevenueShareBps"
    ELSE "Ok"

register_offering(issuer, token, revenue_share_bps, payout_asset, auth) ==
    LET r == register_offering_result(issuer, token, revenue_share_bps, payout_asset, auth)
        offering == [issuer |-> issuer, token |-> token,
                     revenue_share_bps |-> revenue_share_bps,
                     payout_asset |-> payout_asset]
    IN  /\ IF r = "Ok"
           THEN /\ offerItem' = [offerItem EXCEPT ![issuer] = Append(@, offering)]
                /\ offeringIssuer' = [offeringIssuer EXCEPT ![token] = issuer]
           ELSE UNCHANGED <<offerItem, offeringIssuer>>
        /\ last' = Call("register_offering", r,
                        IF r = "Ok" THEN <<"offer_reg">> ELSE <<>>)
        /\ UNCHANGED <<pendingIssuerTransfer, ledger, holders, guardrail, audit,
                       lifecycle, now, claimHist>>

\* ------------------------------------------------------------ revenue deposit ledger
\* Fault: the issuer argument is trusted without looking at the reverse index.
issuer_unchecked(issuer, token) == TRUE

\* The check every issuer-gated entry point makes: the token has an issuer of
\* record and it is the `issuer` argument.
issuer_is_current(issuer, token) ==
    get_current_issuer(token) # None /\ get_current_issuer(token) = issuer

\* Fault: the duplicate-period check is missing.
period_check_skipped(token, period_id) == FALSE

\* Fault: the period is compared with the latest indexed period only.
period_is_latest(token, period_id) ==
    /\ periodEntry[token] # <<>>
    /\ periodEntry[token][Len(periodEntry[token])] = period_id

period_deposited(token, period_id) == period_id \in DOMAIN periodRevenue[token]

\* Fault: a deposit is not compared with the pinned payment token.
lock_unchecked(token, payment_token) == FALSE

\* A payment token is pinned for the token and it is not `payment_token`.
payment_token_mismatch(token, payment_token) ==
    paymentToken[token] # None /\ paymentToken[token] # payment_token

\* PaymentToken as the call leaves it just before the transfer.
payment_token_pinned(token, payment_token) ==
    IF paymentToken[token] = None
    THEN [paymentToken EXCEPT ![token] = payment_token]
    ELSE paymentToken

\* Fault: a write made before a trap stays in storage.
writes_survive_trap(before, written) == written

\* What is persisted of a value a call wrote before it trapped: the host
\* discards the writes of a trapped call.
after_trap(before, written) == before

deposit_revenue_result(issuer, token, payment_token, amount, period_id, auth, transfer_ok) ==
    IF ~require_not_frozen THEN "ContractFrozen"
    ELSE IF ~issuer_is_current(issuer, token) THEN "OfferingNotFound"
    ELSE IF get_offering(issuer, token) = <<>> THEN "OfferingNotFound"
    ELSE IF get_offering(issuer, token)[1].payout_asset # payment_token
         THEN "PayoutAssetMismatch"
    ELSE IF ~require_auth(issuer, auth) THEN "Panic"
    ELSE IF period_deposited(token, period_id) THEN "PeriodAlreadyDeposited"
    ELSE IF payment_token_mismatch(token, payment_token) THEN "PaymentTokenMismatch"
    ELSE IF ~transfer_ok THEN "Panic"
    ELSE "Ok"

\* The call traps in the transfer, after it has written the payment-token lock.
deposit_traps_in_transfer(issuer, token, payment_token, amount, period_id, auth, transfer_ok) ==
    /\ deposit_revenue_result(issuer, token, payment_token, amount, period_id,
                              auth, transfer_ok) = "Panic"
    /\ deposit_revenue_result(issuer, token, payment_token, amount, period_id,
                              auth, TRUE) = "Ok"

deposit_revenue(issuer, token, payment_token, amount, period_id, auth, transfer_ok) ==
    LET r == deposit_revenue_result(issuer, token, payment_token, amount, period_id,
                                    auth, transfer_ok)
    IN  /\ IF r = "Ok"
           THEN /\ paymentToken' = payment_token_pinned(token, payment_token)
                /\ periodRevenue' = [periodRevenue EXCEPT ![token] =
                       [p \in DOMAIN @ \cup {period_id} |->
                           IF p = period_id THEN amount ELSE @[p]]]
                /\ periodDepositTime' = [periodDepositTime EXCEPT ![token] =
                       [p \in DOMAIN @ \cup {period_id} |->
                           IF p = period_id THEN now ELSE @[p]]]
                /\ periodEntry' = [periodEntry EXCEPT ![token] = Append(@, period_id)]
           ELSE /\ paymentToken' =
                       IF deposit_traps_in_transfer(issuer, token, payment_token, amount,
                                                    period_id, auth, transfer_ok)
                       THEN after_trap(paymentToken,
                                       payment_token_pinned(token, payment_token))
                       ELSE paymentToken
                /\ UNCHANGED <<periodRevenue, periodDepositTime, periodEntry>>
        /\ last' = Call("deposit_revenue", r, IF r = "Ok" THEN <<"rev_dep">> ELSE <<>>)
        /\ UNCHANGED <<registry, holders, guardrail, audit, lifecycle, now, claimHist>>

\* ------------------------------------------------------------ holder share table
set_holder_share_result(issuer, token, holder, share_bps, auth) ==
    IF ~require_not_frozen THEN "ContractFrozen"
    ELSE IF ~issuer_is_current(issuer, token) THEN "OfferingNotFound"
    ELSE IF ~require_auth(issuer, auth) THEN "Panic"
    ELSE IF share_bps > 10000 THEN "InvalidShareBps"
    ELSE "Ok"

set_holder_share(issuer, token, holder, share_bps, auth) ==
    LET r == set_holder_share_result(issuer, token, holder, share_bps, auth)
    IN  /\ holderShare' = IF r = "Ok"
                          THEN [holderShare EXCEPT ![token, holder] = share_bps]
                          ELSE holderShare
        /\ last' = Call("set_holder_share", r,
                        IF r = "Ok" THEN <<"share_set">> ELSE <<>>)
        /\ UNCHANGED <<registry, ledger, lastClaimedIdx, guardrail, audit,
                       lifecycle, now, claimHist>>

\* ------------------------------------------------------------ the ledger clock
Tick ==
    /\ now < MaxTime
    /\ now' = now + 1
    /\ UNCHANGED <<storage, last, claimHist>>

\* ------------------------------------------------------------ guardrail setters
set_claim_delay_result(issuer, token, delay_secs, auth) ==
    IF ~require_not_frozen THEN "ContractFrozen"
    ELSE IF ~issuer_is_current(issuer, token) THEN "OfferingNotFound"
    ELSE IF ~require_auth(issuer, auth) THEN "Panic"
    ELSE "Ok"

set_claim_delay(issuer, token, delay_secs, auth) ==
    LET r == set_claim_delay_result(issuer, token, delay_secs, auth)
    IN  /\ claimDelaySecs' = IF r = "Ok"
                             THEN [claimDelaySecs EXCEPT ![token] = delay_secs]
                             ELSE claimDelaySecs
        /\ last' = Call("set_claim_delay", r,
                        IF r = "Ok" THEN <<"delay_set">> ELSE <<>>)
        /\ UNCHANGED <<registry, ledger, holders, roundingMode, concentrationLimit,
                       currentConcentration, blacklist, audit, lifecycle, now, claimHist>>

set_rounding_mode_result(issuer, token, mode, auth) ==
    IF ~require_not_frozen THEN "ContractFrozen"
    ELSE IF ~issuer_is_current(issuer, token) THEN "LimitReached"
    ELSE IF ~require_auth(issuer, auth) THEN "Panic"
    ELSE "Ok"

set_rounding_mode(issuer, token, mode, auth) ==
    LET r == set_rounding_mode_result(issuer, token, mode, auth)
    IN  /\ roundingMode' = IF r = "Ok"
                           THEN [roundingMode EXCEPT ![issuer, token] = mode]
                           ELSE roundingMode
        /\ last' = Call("set_rounding_mode", r, <<>>)
        /\ UNCHANGED <<registry, ledger, holders, claimDelaySecs, concentrationLimit,
                       currentConcentration, blacklist, audit, lifecycle, now, claimHist>>

set_concentration_limit_result(issuer, token, max_bps, enforce, auth) ==
    IF ~require_not_frozen THEN "ContractFrozen"
    ELSE IF ~issuer_is_current(issuer, token) THEN "LimitReached"
    ELSE IF ~require_auth(issuer, auth) THEN "Panic"
    ELSE "Ok"

set_concentration_limit(issuer, token, max_bps, enforce, auth) ==
    LET r == set_concentration_limit_result(issuer, token, max_bps, enforce, auth)
    IN  /\ concentrationLimit' =
               IF r = "Ok"
               THEN [concentrationLimit EXCEPT ![issuer, token] =
                        <<[max_bps |-> max_bps, enforce |-> enforce]>>]
               ELSE concentrationLimit
        /\ last' = Call("set_concentration_limit", r, <<>>)
        /\ UNCHANGED <<registry, ledger, holders, claimDelaySecs, roundingMode,
                       currentConcentration, blacklist, audit, lifecycle, now, claimHist>>

report_concentration_result(issuer, token, concentration_bps, auth) ==
    IF ~require_not_frozen THEN "ContractFrozen"
    ELSE IF ~issuer_is_current(issuer, token) THEN "OfferingNotFound"
    ELSE IF ~require_auth(issuer, auth) THEN "Panic"
    ELSE "Ok"

\* The stored limit is set, non-zero and below the reported concentration.
concentration_warning(issuer, token, concentration_bps) ==
    /\ concentrationLimit[issuer, token] # <<>>
    /\ concentrationLimit[issuer, token][1].max_bps > 0
    /\ concentration_bps > concentrationLimit[issuer, token][1].max_bps

report_concentration(issuer, token, concentration_bps, auth) ==
    LET r == report_concentration_result(issuer, token, concentration_bps, auth)
    IN  /\ currentConcentration' =
               IF r = "Ok"
               THEN [currentConcentration EXCEPT ![issuer, token] = <<concentration_bps>>]
               ELSE currentConcentration
        /\ last' = Call("report_concentration", r,
                        IF r = "Ok" /\ concentration_warning(issuer, token, concentration_bps)
                        THEN <<"conc_warn">> ELSE <<>>)
        /\ UNCHANGED <<registry, ledger, holders, claimDelaySecs, roundingMode,
                       concentrationLimit, blacklist, audit, lifecycle, now, claimHist>>

\* ------------------------------------------------------------ audit reports
\* Fault: report_revenue never enforces the concentration limit.
concentration_unenforced(issuer, token) == FALSE

\* report_revenue's guardrail: an enforced non-zero limit below the last
\* reported concentration (an unreported concentration reads as 0).
concentration_exceeded(issuer, token) ==
    /\ concentrationLimit[issuer, token] # <<>>
    /\ concentrationLimit[issuer, token][1].enforce
    /\ concentrationLimit[issuer, token][1].max_bps > 0
    /\ (IF currentConcentration[issuer, token] = <<>> THEN 0
        ELSE currentConcentration[issuer, token][1])
           > concentrationLimit[issuer, token][1].max_bps

report_revenue_result(issuer, token, payout_asset, amount, period_id, override_existing, auth) ==
    IF ~require_not_frozen THEN "ContractFrozen"
    ELSE IF ~issuer_is_current(issuer, token) THEN "OfferingNotFound"
    ELSE IF ~require_not_paused THEN "Panic"
    ELSE IF ~require_auth(issuer, auth) THEN "Panic"
    ELSE IF get_offering(issuer, token) = <<>> THEN "OfferingNotFound"
    ELSE IF get_offering(issuer, token)[1].payout_asset # payout_asset
         THEN "PayoutAssetMismatch"
    ELSE IF ~is_testnet_mode /\ concentration_exceeded(issuer, token)
         THEN "ConcentrationLimitExceeded"
    ELSE "Ok"

\* Fault: a report replaces the stored one whatever the override flag.
report_always_stored(reports, period_id, override_existing) == TRUE

\* The report is written: the period has none yet, or the override is asked.
report_stored(reports, period_id, override_existing) ==
    period_id \notin DOMAIN reports \/ override_existing

\* The events of a successful report, in the order they are published.
report_revenue_events(issuer, token, period_id, override_existing) ==
    (IF period_id \notin DOMAIN revenueReports[issuer, token]
     THEN <<"rev_init", "rev_inia">>
     ELSE IF override_existing THEN <<"rev_ovrd", "rev_ovra">>
     ELSE <<"rev_rej", "rev_reja">>)
    \o <<"rev_rep", "rev_repa">>
    \o (IF is_event_versioning_enabled
        THEN <<"rv_init1", "rv_inia1", "rv_rep1", "rv_repa1">> ELSE <<>>)

\* Fault: the report is booked as a deposit of the reported amount.
report_as_deposit(issuer, token, payout_asset, amount, period_id, override_existing, auth) ==
    deposit_revenue(issuer, token, payout_asset, amount, period_id, auth, TRUE)

audit_summary_of(issuer, token) ==
    IF auditSummary[issuer, token] = <<>>
    THEN [total_revenue |-> 0, report_count |-> 0]
    ELSE auditSummary[issuer, token][1]

report_revenue(issuer, token, payout_asset, amount, period_id, override_existing, auth) ==
    LET r == report_revenue_result(issuer, token, payout_asset, amount, period_id,
                                   override_existing, auth)
        reports == revenueReports[issuer, token]
        summary == audit_summary_of(issuer, token)
    IN  /\ IF r = "Ok"
           THEN /\ revenueReports' =
                       IF ~report_stored(reports, period_id, override_existing)
                       THEN revenueReports
                       ELSE [revenueReports EXCEPT ![issuer, token] =
                               [p \in DOMAIN reports \cup {period_id} |->
                                   IF p = period_id
                                   THEN [amount |-> amount, timestamp |-> now]
                                   ELSE reports[p]]]
                /\ auditSummary' = [auditSummary EXCEPT ![issuer, token] =
                       <<[total_revenue |->
                              saturating_add_i128(summary.total_revenue, amount),
                          report_count |->
                              saturating_add_u64(summary.report_count, 1)]>>]
           ELSE UNCHANGED audit
        /\ last' = Call("report_revenue", r,
                        IF r = "Ok"
                        THEN report_revenue_events(issuer, token, period_id,
                                                   override_existing)
                        ELSE <<>>)
        /\ UNCHANGED <<registry, ledger, holders, guardrail, lifecycle, now, claimHist>>

\* ------------------------------------------------------------ issuer transfer
\* Fault: a proposal does not look for one in flight.
pending_transfer_ignored(token) == FALSE

has_pending_transfer(token) == pendingIssuerTransfer[token] # None

propose_issuer_transfer_result(token, new_issuer, auth) ==
    IF ~require_not_frozen THEN "ContractFrozen"
    ELSE IF get_current_issuer(token) = None THEN "OfferingNotFound"
    ELSE IF ~require_auth(get_current_issuer(token), auth) THEN "Panic"
    ELSE IF has_pending_transfer(token) THEN "IssuerTransferPending"
    ELSE "Ok"

propose_issuer_transfer(token, new_issuer, auth) ==
    LET r == propose_issuer_transfer_result(token, new_issuer, auth)
    IN  /\ pendingIssuerTransfer' =
               IF r = "Ok"
               THEN [pendingIssuerTransfer EXCEPT ![token] = new_issuer]
               ELSE pendingIssuerTransfer
        /\ last' = Call("propose_issuer_transfer", r,
                        IF r = "Ok" THEN <<"iss_prop">> ELSE <<>>)
        /\ UNCHANGED <<offerItem, offeringIssuer, ledger, holders, guardrail, audit,
                       lifecycle, now, claimHist>>

accept_issuer_transfer_result(token, auth) ==
    IF ~require_not_frozen THEN "ContractFrozen"
    ELSE IF pendingIssuerTransfer[token] = None THEN "NoTransferPending"
    ELSE IF ~require_auth(pendingIssuerTransfer[token], auth) THEN "Panic"
    ELSE IF get_current_issuer(token) = None THEN "OfferingNotFound"
    ELSE IF get_offering(get_current_issuer(token), token) = <<>> THEN "OfferingNotFound"
    ELSE "Ok"

\* The old issuer's list without its entry at `index` (from 1): the last
\* entry fills the gap and the count drops by one.
swap_remove(list, index) ==
    LET old_count == Len(list)
    IN  IF index < old_count
        THEN SubSeq([list EXCEPT ![index] = list[old_count]], 1, old_count - 1)
        ELSE SubSeq(list, 1, old_count - 1)

\* The indices at which the old issuer keeps an OfferItem after the removal of
\* the one at `index` (from 0), as the storage writes leave them: the item at
\* index is removed; when it was not the last, the last item is written there
\* and removed from its own index.
offer_items_after_removal(old_count, index) ==
    LET removed == (0..(old_count - 1)) \ {index}
    IN  IF index < old_count - 1
        THEN (removed \cup {index}) \ {old_count - 1}
        ELSE removed

\* Fault: the offering is removed from the old issuer's list and not added to
\* the new issuer's.
offerings_dropped(old_issuer, new_issuer, token) ==
    [offerItem EXCEPT ![old_issuer] = swap_remove(@, offering_index(old_issuer, token))]

\* The offering lists after the transfer of the token's first entry in the old
\* issuer's list to the end of the new issuer's list.
offerings_relocated(old_issuer, new_issuer, token) ==
    LET offering == get_offering(old_issuer, token)[1]
        updated_offering == [issuer |-> new_issuer, token |-> token,
                             revenue_share_bps |-> offering.revenue_share_bps,
                             payout_asset |-> offering.payout_asset]
        removed == [offerItem EXCEPT ![old_issuer] =
                       swap_remove(@, offering_index(old_issuer, token))]
    IN  [removed EXCEPT ![new_issuer] = Append(@, updated_offering)]

accept_issuer_transfer(token, auth) ==
    LET r == accept_issuer_transfer_result(token, auth)
        new_issuer == pendingIssuerTransfer[token]
        old_issuer == get_current_issuer(token)
    IN  /\ IF r = "Ok"
           THEN /\ offerItem' = offerings_relocated(old_issuer, new_issuer, token)
                /\ offeringIssuer' = [offeringIssuer EXCEPT ![token] = new_issuer]
                /\ pendingIssuerTransfer' = [pendingIssuerTransfer EXCEPT ![token] = None]
           ELSE UNCHANGED registry
        /\ last' = Call("accept_issuer_transfer", r,
                        IF r = "Ok" THEN <<"iss_acc">> ELSE <<>>)
        /\ UNCHANGED <<ledger, holders, guardrail, audit, lifecycle, now, claimHist>>

cancel_issuer_transfer_result(token, auth) ==
    IF ~require_not_frozen THEN "ContractFrozen"
    ELSE IF get_current_issuer(token) = None THEN "OfferingNotFound"
    ELSE IF ~require_auth(get_current_issuer(token), auth) THEN "Panic"
    ELSE IF pendingIssuerTransfer[token] = None THEN "NoTransferPending"
    ELSE "Ok"

cancel_issuer_transfer(token, auth) ==
    LET r == cancel_issuer_transfer_result(token, auth)
    IN  /\ pendingIssuerTransfer' =
               IF r = "Ok"
               THEN [pendingIssuerTransfer EXCEPT ![token] = None]
               ELSE pendingIssuerTransfer
        /\ last' = Call("cancel_issuer_transfer", r,
                        IF r = "Ok" THEN <<"iss_canc">> ELSE <<>>)
        /\ UNCHANGED <<offerItem, offeringIssuer, ledger, holders, guardrail, audit,
                       lifecycle, now, claimHist>>

\* ------------------------------------------------------------ access and lifecycle
\* Fault: initialize does not look for an admin already set.
initialize_unchecked(new_admin, new_safety) == "Ok"

initialize_result(new_admin, new_safety) ==
    IF admin # None THEN "Panic" ELSE "Ok"

\* new_safety is None for an absent safety role.
initialize(new_admin, new_safety) ==
    LET r == initialize_result(new_admin, new_safety)
    IN  /\ IF r = "Ok"
           THEN /\ admin' = new_admin
                /\ safety' = IF new_safety # None THEN new_safety ELSE safety
                /\ paused' = FALSE
           ELSE UNCHANGED <<admin, safety, paused>>
        /\ last' = Call("initialize", r, IF r = "Ok" THEN <<"init">> ELSE <<>>)
        /\ UNCHANGED <<registry, ledger, holders, guardrail, audit, frozen,
                       testnetMode, now, claimHist>>

set_admin_result(new_admin, auth) ==
    IF ~require_auth(new_admin, auth) THEN "Panic"
    ELSE IF admin # None THEN "LimitReached"
    ELSE "Ok"

set_admin(new_admin, auth) ==
    LET r == set_admin_result(new_admin, auth)
    IN  /\ admin' = IF r = "Ok" THEN new_admin ELSE admin
        /\ last' = Call("set_admin", r, <<>>)
        /\ UNCHANGED <<registry, ledger, holders, guardrail, audit, safety, paused,
                       frozen, testnetMode, now, claimHist>>

\* Fault: the pause entry points accept any caller.
role_unchecked(caller, role, auth) == "Ok"

\* The role check of the four pause entry points: the caller authorizes the
\* call, the role is set, and the caller holds it.
role_result(caller, role, auth) ==
    IF ~require_auth(caller, auth) THEN "Panic"
    ELSE IF role = None THEN "Panic"
    ELSE IF caller # role THEN "Panic"
    ELSE "Ok"

\* A pause entry point: the role check, then Paused is set to `value`.
set_paused(op, caller, role, value, event, auth) ==
    LET r == role_result(caller, role, auth)
    IN  /\ paused' = IF r = "Ok" THEN value ELSE paused
        /\ last' = Call(op, r, IF r = "Ok" THEN <<event>> ELSE <<>>)
        /\ UNCHANGED <<registry, ledger, holders, guardrail, audit, admin, safety,
                       frozen, testnetMode, now, claimHist>>

pause_admin(caller, auth) == set_paused("pause_admin", caller, admin, TRUE, "paused", auth)
unpause_admin(caller, auth) == set_paused("unpause_admin", caller, admin, FALSE, "unpaused", auth)
pause_safety(caller, auth) == set_paused("pause_safety", caller, safety, TRUE, "paused", auth)
unpause_safety(caller, auth) == set_paused("unpause_safety", caller, safety, FALSE, "unpaused", auth)

\* The admin check of freeze and set_testnet_mode.
admin_result(auth) ==
    IF admin = None THEN "LimitReached"
    ELSE IF ~require_auth(admin, auth) THEN "Panic"
    ELSE "Ok"

\* Fault: freeze flips the flag instead of setting it.
frozen_toggled == ~frozen

\* The value freeze stores under Frozen.
frozen_written == TRUE

freeze(auth) ==
    LET r == admin_result(auth)
    IN  /\ frozen' = IF r = "Ok" THEN frozen_written ELSE frozen
        /\ last' = Call("freeze", r, IF r = "Ok" THEN <<"freeze">> ELSE <<>>)
        /\ UNCHANGED <<registry, ledger, holders, guardrail, audit, admin, safety,
                       paused, testnetMode, now, claimHist>>

set_testnet_mode(enabled, auth) ==
    LET r == admin_result(auth)
    IN  /\ testnetMode' = IF r = "Ok" THEN enabled ELSE testnetMode
        /\ last' = Call("set_testnet_mode", r, IF r = "Ok" THEN <<"test_mode">> ELSE <<>>)
        /\ UNCHANGED <<registry, ledger, holders, guardrail, audit, admin, safety,
                       paused, frozen, now, claimHist>>

\* ------------------------------------------------------------ blacklist
\* Fault: the write replaces the token's map by the one entry.
map_replaced(map, investor) == {investor}

\* map.set(investor, true) on the token's map, a set since every value is true.
map_set(map, investor) == map \cup {investor}

\* blacklist_add and blacklist_remove make the same checks.
blacklist_result(caller, token, investor, auth) ==
    IF ~require_not_frozen THEN "ContractFrozen"
    ELSE IF ~require_not_paused THEN "Panic"
    ELSE IF ~require_auth(caller, auth) THEN "Panic"
    ELSE "Ok"

blacklist_add(caller, token, investor, auth) ==
    LET r == blacklist_result(caller, token, investor, auth)
    IN  /\ blacklist' = IF r = "Ok"
                        THEN [blacklist EXCEPT ![token] = map_set(@, investor)]
                        ELSE blacklist
        /\ last' = Call("blacklist_add", r, IF r = "Ok" THEN <<"bl_add">> ELSE <<>>)
        /\ UNCHANGED <<registry, ledger, holders, claimDelaySecs, roundingMode,
                       concentrationLimit, currentConcentration, audit, lifecycle,
                       now, claimHist>>

blacklist_remove(caller, token, investor, auth) ==
    LET r == blacklist_result(caller, token, investor, auth)
    IN  /\ blacklist' = IF r = "Ok"
                        THEN [blacklist EXCEPT ![token] = @ \ {investor}]
                        ELSE blacklist
        /\ last' = Call("blacklist_remove", r, IF r = "Ok" THEN <<"bl_rem">> ELSE <<>>)
        /\ UNCHANGED <<registry, ledger, holders, claimDelaySecs, roundingMode,
                       concentrationLimit, currentConcentration, audit, lifecycle,
                       now, claimHist>>

\* ------------------------------------------------------------ claim engine
\* Fault: only max_periods = 0 is replaced by the cap.
effective_max_uncapped(max_periods) ==
    IF max_periods = 0 THEN MAX_CLAIM_PERIODS ELSE max_periods

effective_max(max_periods) ==
    IF max_periods = 0 \/ max_periods > MAX_CLAIM_PERIODS
    THEN MAX_CLAIM_PERIODS ELSE max_periods

\* Period id at index i (from 0) of the token's period list.
period_entry(token, i) == periodEntry[token][i + 1]

deposit_time_of(token, period_id) ==
    IF period_id \in DOMAIN periodDepositTime[token]
    THEN periodDepositTime[token][period_id] ELSE 0

\* Fault: a period is still blocked at deposit_time + delay_secs.
delay_blocks_at_deadline(delay_secs, deposit_time, t) ==
    delay_secs > 0 /\ t <= saturating_add_u64(deposit_time, delay_secs)

\* Fault: the loop never breaks on an unelapsed delay.
delay_never_blocks(delay_secs, deposit_time, t) == FALSE

\* Fault: the loop breaks at every period.
delay_always_blocks(delay_secs, deposit_time, t) == TRUE

\* The loop's break condition: the period's claim delay has not elapsed.
delay_blocks(delay_secs, deposit_time, t) ==
    delay_secs > 0 /\ t < saturating_add_u64(deposit_time, delay_secs)

\* Fault: the payout is rounded up to the next unit.
claim_payout_ceil(revenue, share_bps) == trunc_div(revenue * share_bps + 9999, 10000)

\* One period's payout as the claim loop computes it.
claim_payout(revenue, share_bps) == trunc_div(revenue * share_bps, 10000)

\* Faults: the claim ignores the stored cursor, or starts one index late.
start_idx_zero(token, holder) == 0
start_idx_next(token, holder) == lastClaimedIdx[token, holder] + 1

\* LastClaimedIdx as the claim reads it (0 when unset).
start_idx_of(token, holder) == lastClaimedIdx[token, holder]

\* The claim loop from index i.  acc: total_payout, last_claimed_idx, the
\* indices processed (claimed_periods holds their period ids) and whether the
\* loop trapped (a period's revenue is missing, or the product overflows).
RECURSIVE claim_loop(_, _, _, _, _)
claim_loop(token, share_bps, i, end_idx, acc) ==
    IF i >= end_idx \/ acc.trap THEN acc
    ELSE LET period_id == period_entry(token, i)
         IN  IF delay_blocks(claimDelaySecs[token], deposit_time_of(token, period_id), now)
             THEN acc
             ELSE IF ~period_deposited(token, period_id)
                     \/ mul_overflows(periodRevenue[token][period_id], share_bps)
             THEN [acc EXCEPT !.trap = TRUE]
             ELSE claim_loop(token, share_bps, i + 1, end_idx,
                     [total_payout |-> acc.total_payout
                          + claim_payout(periodRevenue[token][period_id], share_bps),
                      last_claimed_idx |-> i + 1,
                      claimed |-> Append(acc.claimed, i),
                      trap |-> FALSE])

\* Fault: the loop's range is empty.
claim_end_idx_empty(token, holder, max_periods) == start_idx_of(token, holder)

claim_end_idx(token, holder, max_periods) ==
    Min(start_idx_of(token, holder) + effective_max(max_periods), get_period_count(token))

claim_scan(token, holder, max_periods) ==
    claim_loop(token, get_holder_share(token, holder), start_idx_of(token, holder),
               claim_end_idx(token, holder, max_periods),
               [total_payout |-> 0,
                last_claimed_idx |-> start_idx_of(token, holder),
                claimed |-> <<>>,
                trap |-> FALSE])

\* The period ids from the holder's cursor to the end of the token's list.
get_pending_periods(token, holder) ==
    SubSeq(periodEntry[token], start_idx_of(token, holder) + 1, get_period_count(token))

\* Fault: the preview sums from index 0 instead of the holder's cursor.
claimable_from_zero(token, holder) ==
    claim_loop(token, get_holder_share(token, holder), 0, get_period_count(token),
               [total_payout |-> 0, last_claimed_idx |-> 0,
                claimed |-> <<>>, trap |-> FALSE]).total_payout

\* The preview: 0 for a holder without share, else the loop of claim from the
\* cursor to the end of the list, without a cap on the number of periods.
get_claimable(token, holder) ==
    IF get_holder_share(token, holder) = 0 THEN 0
    ELSE claim_loop(token, get_holder_share(token, holder),
                    start_idx_of(token, holder), get_period_count(token),
                    [total_payout |-> 0,
                     last_claimed_idx |-> start_idx_of(token, holder),
                     claimed |-> <<>>,
                     trap |-> FALSE]).total_payout

\* Fault: the transfer is invoked whatever the total.
claim_transfers_unconditional(token, holder, max_periods) ==
    <<claim_scan(token, holder, max_periods).total_payout>>

\* The amounts of the external transfers the call invokes after the loop: one
\* transfer of total_payout when it is positive, none otherwise.
claim_transfers(token, holder, max_periods) ==
    IF claim_scan(token, holder, max_periods).total_payout > 0
    THEN <<claim_scan(token, holder, max_periods).total_payout>>
    ELSE <<>>

claim_result(holder, token, max_periods, auth, transfer_ok) ==
    IF ~require_auth(holder, auth) THEN "Panic"
    ELSE IF is_blacklisted(token, holder) THEN "HolderBlacklisted"
    ELSE IF get_holder_share(token, holder) = 0 THEN "NoPendingClaims"
    ELSE IF start_idx_of(token, holder) >= get_period_count(token) THEN "NoPendingClaims"
    ELSE IF claim_scan(token, holder, max_periods).trap THEN "Panic"
    ELSE IF claim_scan(token, holder, max_periods).last_claimed_idx
                = start_idx_of(token, holder)
         THEN "ClaimDelayNotElapsed"
    ELSE IF claim_transfers(token, holder, max_periods) # <<>>
            /\ (paymentToken[token] = None \/ ~transfer_ok)
         THEN "Panic"
    ELSE "Ok"

\* History: what successful claims paid for each period index they processed.
\* times: how many claims processed it; paid: the sum of its payouts; due:
\* compute_share under the offering's rounding mode when it was first claimed;
\* ready: deposit_timestamp + claim_delay <= now held at every such claim.
claim_recorded(token, holder, claimed) ==
    LET h    == claimHist[token, holder]
        bps  == get_holder_share(token, holder)
        mode == IF get_current_issuer(token) \in Issuers
                THEN get_rounding_mode(get_current_issuer(token), token)
                ELSE "Truncation"
        rev(i) == periodRevenue[token][period_entry(token, i)]
        now_ready(i) == deposit_time_of(token, period_entry(token, i))
                            + claimDelaySecs[token] <= now
    IN  [i \in DOMAIN h \cup claimed |->
            IF i \in claimed
            THEN [times |-> (IF i \in DOMAIN h THEN h[i].times ELSE 0) + 1,
                  paid  |-> (IF i \in DOMAIN h THEN h[i].paid ELSE 0)
                                + claim_payout(rev(i), bps),
                  due   |-> IF i \in DOMAIN h THEN h[i].due
                            ELSE compute_share(rev(i), bps, mode),
                  ready |-> (i \in DOMAIN h => h[i].ready) /\ now_ready(i)]
            ELSE h[i]]

Range(seq) == {seq[k] : k \in 1..Len(seq)}

claim(holder, token, max_periods, auth, transfer_ok) ==
    LET r    == claim_result(holder, token, max_periods, auth, transfer_ok)
        scan == claim_scan(token, holder, max_periods)
    IN  /\ IF r = "Ok"
           THEN /\ lastClaimedIdx' =
                       [lastClaimedIdx EXCEPT ![token, holder] = scan.last_claimed_idx]
                /\ claimHist' = [claimHist EXCEPT ![token, holder] =
                       claim_recorded(token, holder, Range(scan.claimed))]
                /\ last' = [op |-> "claim", result |-> r,
                            payout |-> scan.total_payout,
                            claimed |-> scan.claimed,
                            events |-> <<"claim">>]
           ELSE /\ UNCHANGED <<lastClaimedIdx, claimHist>>
                /\ last' = Call("claim", r, <<>>)
        /\ UNCHANGED <<registry, ledger, holderShare, guardrail, audit, lifecycle, now>>

\* ------------------------------------------------------------ the deposit/claim ledger
\* The ledger specification: one offering (I, T, P) and one holder H; J is the
\* issuer of the deposits that must be refused.  Rounding stays Truncation.
LedgerAmounts == {1, 100}
LedgerShares  == {0, 5000}
LedgerDelays  == {0, 1}
LedgerBatch   == {0, 1}

RegisterOne ==
    /\ offer_total = 0
    /\ register_offering("I", "T", 5000, "P", "I")

Deposit ==
    \E issuer \in Issuers, amount \in LedgerAmounts,
       period_id \in PeriodIds, transfer_ok \in BOOLEAN :
        deposit_revenue(issuer, "T", "P", amount, period_id, issuer, transfer_ok)

SetHolderShare ==
    \E share_bps \in LedgerShares : set_holder_share("I", "T", "H", share_bps, "I")

SetClaimDelay ==
    \E delay_secs \in LedgerDelays : set_claim_delay("I", "T", delay_secs, "I")

Claim ==
    \E max_periods \in LedgerBatch, transfer_ok \in BOOLEAN :
        claim("H", "T", max_periods, "H", transfer_ok)

Next ==
    \/ RegisterOne
    \/ Deposit
    \/ SetHolderShare
    \/ SetClaimDelay
    \/ Claim
    \/ Tick

Spec == Init /\ [][Next]_vars


\* ------------------------------------------------------------ ledger properties
\* C1 (as amended): once a period of a token is deposited, no later
\* deposit_revenue for that token and period succeeds, whoever calls it and
\* with whatever asset or amount; the call fails with PeriodAlreadyDeposited
\* whenever it gets past the frozen, issuer, payout-asset and authorization
\* checks; the stored amount and timestamp stay those of the first deposit and
\* a failed deposit leaves the period list and count alone.
C1_deposit_write_once ==
    /\ [](\A token \in Tokens : \A period_id \in DOMAIN periodRevenue[token] :
            \A issuer \in Issuers, payment_token \in Assets, amount \in LedgerAmounts,
               auth \in Principals, transfer_ok \in BOOLEAN :
              LET r == deposit_revenue_result(issuer, token, payment_token, amount,
                                              period_id, auth, transfer_ok)
                  offering == get_offering(issuer, token)
              IN  /\ r # "Ok"
                  /\ (/\ ~frozen
                      /\ offeringIssuer[token] = issuer
                      /\ offering # <<>>
                      /\ offering[1].payout_asset = payment_token
                      /\ auth = issuer) => r = "PeriodAlreadyDeposited")
    /\ [][\A token \in Tokens :
            /\ \A period_id \in DOMAIN periodRevenue[token] :
                 /\ period_id \in DOMAIN periodRevenue'[token]
                 /\ periodRevenue'[token][period_id] = periodRevenue[token][period_id]
                 /\ periodDepositTime'[token][period_id]
                        = periodDepositTime[token][period_id]
            /\ periodEntry'[token] # periodEntry[token]
                 => /\ last'.op = "deposit_revenue" /\ last'.result = "Ok"
                    /\ \E period_id \in PeriodIds \ DOMAIN periodRevenue[token] :
                         periodEntry'[token] = Append(periodEntry[token], period_id)
       ]_vars

C1_witness ==
    /\ last.op = "deposit_revenue"
    /\ last.result = "PeriodAlreadyDeposited"
    /\ Len(periodEntry["T"]) = 1
    /\ periodRevenue["T"][periodEntry["T"][1]] = 100

\* C1 as stated: every later deposit_revenue for a deposited period fails with
\* PeriodAlreadyDeposited, the record stays and the period list is untouched.
C1_as_stated ==
    /\ [](\A token \in Tokens : \A period_id \in DOMAIN periodRevenue[token] :
            \A issuer \in Issuers, payment_token \in Assets, amount \in LedgerAmounts,
               auth \in Principals, transfer_ok \in BOOLEAN :
              deposit_revenue_result(issuer, token, payment_token, amount,
                                     period_id, auth, transfer_ok)
                  = "PeriodAlreadyDeposited")
    /\ [][\A token \in Tokens :
            /\ \A period_id \in DOMAIN periodRevenue[token] :
                 /\ period_id \in DOMAIN periodRevenue'[token]
                 /\ periodRevenue'[token][period_id] = periodRevenue[token][period_id]
                 /\ periodDepositTime'[token][period_id]
                        = periodDepositTime[token][period_id]
            /\ periodEntry'[token] # periodEntry[token]
                 => /\ last'.op = "deposit_revenue" /\ last'.result = "Ok"
                    /\ \E period_id \in PeriodIds \ DOMAIN periodRevenue[token] :
                         periodEntry'[token] = Append(periodEntry[token], period_id)
       ]_vars

\* C2: the claim cursor of a (token, holder) never decreases and never exceeds
\* the number of deposited periods, and no period index is processed by two
\* successful claims of the same holder.
C2_cursor_monotone ==
    [][\A token \in Tokens, holder \in Holders :
         /\ lastClaimedIdx'[token, holder] >= lastClaimedIdx[token, holder]
         /\ lastClaimedIdx'[token, holder] <= Len(periodEntry'[token])
         /\ \A i \in DOMAIN claimHist'[token, holder] :
                claimHist'[token, holder][i].times = 1
    ]_vars

C2_witness ==
    /\ last.op = "claim" /\ last.result = "Ok"
    /\ last.claimed = <<1>>
    /\ lastClaimedIdx["T", "H"] = 2
    /\ Len(periodEntry["T"]) = 2

\* C3: a successful claim processes exactly the indices cursor, cursor+1, ...
\* in that order, with no gap, and leaves the cursor right after the last one;
\* nothing else moves a cursor or pays a period.
C3_contiguous_run ==
    [][\A token \in Tokens, holder \in Holders :
         (\/ lastClaimedIdx'[token, holder] # lastClaimedIdx[token, holder]
          \/ claimHist'[token, holder] # claimHist[token, holder])
         => LET c == lastClaimedIdx[token, holder]
                n == Len(last'.claimed)
            IN  /\ last'.op = "claim" /\ last'.result = "Ok"
                /\ n >= 1
                /\ \A k \in 1..n : last'.claimed[k] = c + k - 1
                /\ lastClaimedIdx'[token, holder] = c + n
                /\ DOMAIN claimHist'[token, holder]
                       = DOMAIN claimHist[token, holder] \cup (c..(c + n - 1))
                /\ \A i \in DOMAIN claimHist[token, holder] \ (c..(c + n - 1)) :
                       claimHist'[token, holder][i] = claimHist[token, holder][i]
    ]_vars

C3_witness ==
    /\ last.op = "claim" /\ last.result = "Ok"
    /\ last.claimed = <<0, 1>>
    /\ periodEntry["T"] = <<2, 1>>
    /\ lastClaimedIdx["T", "H"] = 2

\* C4: every period a successful claim processes has
\* deposit_timestamp + claim_delay <= now under the delay stored for the token
\* when the claim runs, and every index the cursor moves past was processed
\* and paid by that very call.
C4_delay_respected ==
    [][\A token \in Tokens, holder \in Holders :
         \A i \in lastClaimedIdx[token, holder]..(lastClaimedIdx'[token, holder] - 1) :
            /\ last'.op = "claim" /\ last'.result = "Ok"
            /\ periodDepositTime[token][periodEntry[token][i + 1]]
                   + claimDelaySecs[token] <= now
            /\ \E k \in 1..Len(last'.claimed) : last'.claimed[k] = i
            /\ i \notin DOMAIN claimHist[token, holder]
            /\ i \in DOMAIN claimHist'[token, holder]
            /\ claimHist'[token, holder][i].ready
    ]_vars

C4_witness ==
    /\ last.op = "claim" /\ last.result = "Ok"
    /\ last.claimed = <<0>>
    /\ claimDelaySecs["T"] = 1
    /\ Len(periodEntry["T"]) = 2
    /\ lastClaimedIdx["T", "H"] = 1
    /\ periodDepositTime["T"][periodEntry["T"][1]] + 1 <= now
    /\ periodDepositTime["T"][periodEntry["T"][2]] + 1 > now

\* C7: a deposit_revenue or a claim whose only failure is the external
\* transfer fails and leaves every stored value as it was: no period record,
\* index entry or count, no payment-token lock, no cursor.
C7_failed_transfer_atomic ==
    [][/\ \A issuer \in Issuers, token \in Tokens, payment_token \in Assets,
             amount \in LedgerAmounts, period_id \in PeriodIds :
            (/\ last'.op = "deposit_revenue"
             /\ deposit_revenue_result(issuer, token, payment_token, amount,
                                       period_id, issuer, TRUE) = "Ok"
             /\ deposit_revenue(issuer, token, payment_token, amount,
                                period_id, issuer, FALSE))
            => /\ last'.result = "Panic"
               /\ UNCHANGED <<storage, claimHist>>
       /\ \A holder \in Holders, token \in Tokens, max_periods \in LedgerBatch :
            (/\ last'.op = "claim"
             /\ claim_result(holder, token, max_periods, holder, TRUE) = "Ok"
             /\ claim_scan(token, holder, max_periods).total_payout > 0
             /\ claim(holder, token, max_periods, holder, FALSE))
            => /\ last'.result = "Panic"
               /\ UNCHANGED <<storage, claimHist>>
    ]_vars

C7_witness ==
    /\ last.op = "deposit_revenue" /\ last.result = "Panic"
    /\ offeringIssuer["T"] = "I"
    /\ get_offering("I", "T") # <<>>
    /\ paymentToken["T"] = None
    /\ periodEntry["T"] = <<>>

\* ------------------------------------------------------------ payout arithmetic
\* Deposits of amounts whose share has a fractional part (1, 3) or none (100),
\* claims under both rounding modes.
RoundingAmounts == {1, 3, 100}
RoundingShares  == {5000, 10000}

DepositAmount ==
    \E amount \in RoundingAmounts, period_id \in PeriodIds :
        deposit_revenue("I", "T", "P", amount, period_id, "I", TRUE)

SetShare ==
    \E share_bps \in RoundingShares : set_holder_share("I", "T", "H", share_bps, "I")

SetRoundingMode ==
    \E mode \in Modes : set_rounding_mode("I", "T", mode, "I")

ClaimAll == claim("H", "T", 0, "H", TRUE)

NextRounding ==
    RegisterOne \/ DepositAmount \/ SetShare \/ SetRoundingMode \/ ClaimAll

SpecRounding == Init /\ [][NextRounding]_vars

\* compute_share summed over the period indices of one claim.
RECURSIVE shares_due(_, _, _, _)
shares_due(token, claimed, share_bps, mode) ==
    IF claimed = <<>> THEN 0
    ELSE compute_share(periodRevenue[token][period_entry(token, Head(claimed))],
                       share_bps, mode)
         + shares_due(token, Tail(claimed), share_bps, mode)

\* C5: for every holder and every period of non-negative revenue, what claims
\* have paid the holder for the period, in total, is at most
\* compute_share(revenue, share at claim time, the offering's rounding mode).
C5_paid_at_most_share ==
    \A token \in Tokens, holder \in Holders :
        \A i \in DOMAIN claimHist[token, holder] :
            periodRevenue[token][period_entry(token, i)] >= 0
                => /\ claimHist[token, holder][i].paid >= 0
                   /\ claimHist[token, holder][i].paid <= claimHist[token, holder][i].due

C5_witness ==
    /\ last.op = "claim" /\ last.result = "Ok"
    /\ 0 \in DOMAIN claimHist["T", "H"]
    /\ periodRevenue["T"][period_entry("T", 0)] = 3
    /\ claimHist["T", "H"][0].paid = 1
    /\ claimHist["T", "H"][0].due = 2

\* C6 as stated: the amount a successful claim returns is the sum, over the
\* periods it processed, of compute_share(revenue, holder share, the
\* offering's rounding mode).
C6_as_stated ==
    (last.op = "claim" /\ last.result = "Ok")
        => last.payout = shares_due("T", last.claimed, get_holder_share("T", "H"),
                                    get_rounding_mode(get_current_issuer("T"), "T"))

\* ------------------------------------------------------------ offering registry and issuer transfer
\* Both issuers register either token (also one that is registered already),
\* and transfers are proposed, accepted and cancelled by either of them.
Register ==
    /\ offer_total < MaxOffers
    /\ \E issuer \in Issuers, token \in Tokens :
           register_offering(issuer, token, 5000, "P", issuer)

Propose ==
    \E token \in Tokens, new_issuer \in Issuers, auth \in Issuers :
        propose_issuer_transfer(token, new_issuer, auth)

Accept ==
    \E token \in Tokens, auth \in Issuers : accept_issuer_transfer(token, auth)

Cancel ==
    \E token \in Tokens, auth \in Issuers : cancel_issuer_transfer(token, auth)

NextTransfer == Register \/ Propose \/ Accept \/ Cancel

SpecTransfer == Init /\ [][NextTransfer]_vars

\* How often a token occurs in an offering list.
occurrences(list, token) == Cardinality({k \in 1..Len(list) : list[k].token = token})

\* C8 as stated: a successful accept_issuer_transfer makes the proposed issuer
\* the issuer of record, leaves the token's offering exactly once in the new
\* issuer's list (issuer field updated, bps and payout asset as before) and not
\* at all in the old issuer's list, keeps every other offering of the old
\* issuer as often as before, and clears the pending entry.
C8_as_stated ==
    [][\A token \in Tokens, auth \in Issuers :
         (/\ accept_issuer_transfer_result(token, auth) = "Ok"
          /\ last'.op = "accept_issuer_transfer"
          /\ accept_issuer_transfer(token, auth))
         => LET new_issuer == pendingIssuerTransfer[token]
                old_issuer == offeringIssuer[token]
                offering   == get_offering(old_issuer, token)[1]
            IN  /\ offeringIssuer'[token] = new_issuer
                /\ pendingIssuerTransfer'[token] = None
                /\ occurrences(offerItem'[new_issuer], token) = 1
                /\ \E k \in 1..Len(offerItem'[new_issuer]) :
                       offerItem'[new_issuer][k] =
                           [issuer |-> new_issuer, token |-> token,
                            revenue_share_bps |-> offering.revenue_share_bps,
                            payout_asset |-> offering.payout_asset]
                /\ old_issuer # new_issuer
                       => /\ occurrences(offerItem'[old_issuer], token) = 0
                          /\ \A other \in Tokens \ {token} :
                                 occurrences(offerItem'[old_issuer], other)
                                     = occurrences(offerItem[old_issuer], other)
    ]_vars

\* C9 as stated: the issuer of record of a registered token changes only in a
\* successful accept_issuer_transfer, and then to the pending proposed issuer.
C9_as_stated ==
    [][\A token \in Tokens :
         (offeringIssuer[token] # None /\ offeringIssuer'[token] # offeringIssuer[token])
         => /\ last'.op = "accept_issuer_transfer"
            /\ last'.result = "Ok"
            /\ offeringIssuer'[token] = pendingIssuerTransfer[token]
    ]_vars

\* ------------------------------------------------------------ issuer-gated entry points
\* One offering that I registers and hands over to J, and every issuer-gated
\* entry point called by either of them, before and after.
GatedOps == {"deposit_revenue", "report_revenue", "set_holder_share", "set_claim_delay",
             "set_concentration_limit", "set_rounding_mode", "report_concentration"}

HandOver == propose_issuer_transfer("T", "J", get_current_issuer("T"))

TakeOver == accept_issuer_transfer("T", pendingIssuerTransfer["T"])

GateDeposit ==
    \E issuer \in Issuers : deposit_revenue(issuer, "T", "P", 100, 1, issuer, TRUE)

GateReport ==
    \E issuer \in Issuers :
        /\ audit_summary_of(issuer, "T").report_count < MaxReports
        /\ report_revenue(issuer, "T", "P", 100, 1, FALSE, issuer)

GateShare ==
    \E issuer \in Issuers : set_holder_share(issuer, "T", "H", 5000, issuer)

GateDelay ==
    \E issuer \in Issuers : set_claim_delay(issuer, "T", 1, issuer)

GateLimit ==
    \E issuer \in Issuers : set_concentration_limit(issuer, "T", 5000, TRUE, issuer)

GateMode ==
    \E issuer \in Issuers : set_rounding_mode(issuer, "T", "RoundHalfUp", issuer)

GateConcentration ==
    \E issuer \in Issuers : report_concentration(issuer, "T", 6000, issuer)

NextGate ==
    \/ RegisterOne \/ HandOver \/ TakeOver
    \/ GateDeposit \/ GateReport \/ GateShare \/ GateDelay
    \/ GateLimit \/ GateMode \/ GateConcentration

SpecGate == Init /\ [][NextGate]_vars

\* C10: each issuer-gated entry point, called with an issuer argument that is
\* not the token's issuer of record, fails (whoever authorizes it, whatever the
\* other arguments) and a failed call of such an entry point changes nothing
\* stored; called by the issuer of record with its own authorization, none of
\* them fails the issuer check.
C10_stale_issuer_rejected ==
    /\ [](\A issuer \in Issuers, token \in Tokens, auth \in Principals :
            /\ offeringIssuer[token] # issuer =>
                 /\ \A payment_token \in Assets, period_id \in PeriodIds,
                       transfer_ok \in BOOLEAN :
                        deposit_revenue_result(issuer, token, payment_token, 100,
                                               period_id, auth, transfer_ok)
                            \in {"ContractFrozen", "OfferingNotFound"}
                 /\ \A payout_asset \in Assets, period_id \in PeriodIds,
                       override_existing \in BOOLEAN :
                        report_revenue_result(issuer, token, payout_asset, 100,
                                              period_id, override_existing, auth)
                            \in {"ContractFrozen", "OfferingNotFound"}
                 /\ \A holder \in Holders :
                        set_holder_share_result(issuer, token, holder, 5000, auth)
                            \in {"ContractFrozen", "OfferingNotFound"}
                 /\ set_claim_delay_result(issuer, token, 1, auth)
                        \in {"ContractFrozen", "OfferingNotFound"}
                 /\ set_concentration_limit_result(issuer, token, 5000, TRUE, auth)
                        \in {"ContractFrozen", "LimitReached"}
                 /\ \A mode \in Modes :
                        set_rounding_mode_result(issuer, token, mode, auth)
                            \in {"ContractFrozen", "LimitReached"}
                 /\ report_concentration_result(issuer, token, 6000, auth)
                        \in {"ContractFrozen", "OfferingNotFound"}
            /\ (offeringIssuer[token] = issuer /\ auth = issuer /\ ~frozen /\ ~paused) =>
                 /\ deposit_revenue_result(issuer, token, "P", 100, 1, auth, TRUE)
                        \in {"Ok", "PeriodAlreadyDeposited"}
                 /\ report_revenue_result(issuer, token, "P", 100, 1, FALSE, auth)
                        \in {"Ok", "ConcentrationLimitExceeded"}
                 /\ set_holder_share_result(issuer, token, "H", 5000, auth) = "Ok"
                 /\ set_claim_delay_result(issuer, token, 1, auth) = "Ok"
                 /\ set_concentration_limit_result(issuer, token, 5000, TRUE, auth) = "Ok"
                 /\ set_rounding_mode_result(issuer, token, "RoundHalfUp", auth) = "Ok"
                 /\ report_concentration_result(issuer, token, 6000, auth) = "Ok")
    /\ [][(last'.op \in GatedOps /\ last'.result # "Ok")
              => UNCHANGED <<storage, claimHist>>]_vars

C10_witness ==
    /\ last.op = "set_holder_share" /\ last.result = "OfferingNotFound"
    /\ offeringIssuer["T"] = "J"
    /\ offerItem["I"] = <<>>
    /\ get_offering("J", "T") # <<>>
    /\ holderShare["T", "H"] = 5000
    /\ periodEntry["T"] = <<1>>

\* C11: per registered token of a contract that is not frozen, the pending
\* transfer follows the two-step machine.  With nothing pending the current
\* issuer's proposal succeeds and accept and cancel fail with
\* NoTransferPending; with a transfer pending a further proposal fails with
\* IssuerTransferPending, the proposed issuer can accept and the current issuer
\* can cancel.  The pending entry changes only by a successful propose (from
\* nothing to the proposed issuer, registry otherwise unchanged), accept (to
\* nothing, the proposed issuer becoming issuer of record) or cancel (to
\* nothing, issuer of record and offering lists unchanged), and a failing
\* propose, accept or cancel changes nothing stored.
C11_two_step_transfer ==
    /\ [](\A token \in Tokens :
            (offeringIssuer[token] # None /\ ~frozen) =>
                LET current == offeringIssuer[token]
                    pending == pendingIssuerTransfer[token]
                IN  IF pending = None
                    THEN /\ \A new_issuer \in Issuers :
                               propose_issuer_transfer_result(token, new_issuer, current)
                                   = "Ok"
                         /\ \A auth \in Principals :
                               accept_issuer_transfer_result(token, auth)
                                   = "NoTransferPending"
                         /\ cancel_issuer_transfer_result(token, current)
                               = "NoTransferPending"
                    ELSE /\ \A new_issuer \in Issuers :
                               propose_issuer_transfer_result(token, new_issuer, current)
                                   = "IssuerTransferPending"
                         /\ accept_issuer_transfer_result(token, pending) = "Ok"
                         /\ cancel_issuer_transfer_result(token, current) = "Ok")
    /\ [][/\ \A token \in Tokens :
               pendingIssuerTransfer'[token] # pendingIssuerTransfer[token] =>
                   /\ last'.result = "Ok"
                   /\ \/ /\ last'.op = "propose_issuer_transfer"
                         /\ pendingIssuerTransfer[token] = None
                         /\ pendingIssuerTransfer'[token] \in Issuers
                         /\ UNCHANGED <<offerItem, offeringIssuer>>
                      \/ /\ last'.op = "accept_issuer_transfer"
                         /\ pendingIssuerTransfer'[token] = None
                         /\ offeringIssuer'[token] = pendingIssuerTransfer[token]
                      \/ /\ last'.op = "cancel_issuer_transfer"
                         /\ pendingIssuerTransfer'[token] = None
                         /\ UNCHANGED <<offerItem, offeringIssuer>>
          /\ (/\ last'.op \in {"propose_issuer_transfer", "accept_issuer_transfer",
                               "cancel_issuer_transfer"}
              /\ last'.result # "Ok") => UNCHANGED <<storage, claimHist>>
       ]_vars

C11_witness ==
    /\ last.op = "propose_issuer_transfer"
    /\ last.result = "IssuerTransferPending"
    /\ offeringIssuer["T"] = "I"
    /\ pendingIssuerTransfer["T"] = "J"

\* ------------------------------------------------------------ lifecycle
\* Admin and safety roles are set up, the contract is paused, unpaused and
\* frozen by either principal, while one offering is registered, funded and
\* claimed.
Initialize ==
    \E new_admin \in Admins, new_safety \in {None, "S"} : initialize(new_admin, new_safety)

SetAdmin == \E new_admin \in Admins, auth \in Admins : set_admin(new_admin, auth)

PauseAdmin == \E caller \in Admins : pause_admin(caller, caller)

UnpauseAdmin == \E caller \in Admins : unpause_admin(caller, caller)

PauseSafety == \E caller \in Admins : pause_safety(caller, caller)

UnpauseSafety == \E caller \in Admins : unpause_safety(caller, caller)

Freeze == \E auth \in Admins : freeze(auth)

SetTestnetMode == \E enabled \in BOOLEAN, auth \in Admins : set_testnet_mode(enabled, auth)

DepositOnce == deposit_revenue("I", "T", "P", 100, 1, "I", TRUE)

ShareOnce == set_holder_share("I", "T", "H", 5000, "I")

BlacklistAdd == \E investor \in Holders : blacklist_add("I", "T", investor, "I")

DelayOnce == set_claim_delay("I", "T", 1, "I")

NextLifecycle ==
    \/ Initialize \/ SetAdmin \/ PauseAdmin \/ UnpauseAdmin \/ PauseSafety
    \/ UnpauseSafety \/ Freeze \/ SetTestnetMode
    \/ RegisterOne \/ DepositOnce \/ ShareOnce \/ BlacklistAdd \/ DelayOnce
    \/ ClaimAll \/ Tick

SpecLifecycle == Init /\ [][NextLifecycle]_vars

\* C12: once Frozen is set it stays set, whatever is called afterwards.
C12_frozen_permanent == [][frozen => frozen']_vars

C12_witness ==
    /\ frozen
    /\ last.op = "unpause_admin" /\ last.result = "Ok"
    /\ testnetMode

\* The entry points that begin with require_not_frozen.
FrozenGated ==
    {"register_offering", "report_revenue", "deposit_revenue", "set_holder_share",
     "set_claim_delay", "set_concentration_limit", "report_concentration",
     "set_rounding_mode", "blacklist_add", "blacklist_remove",
     "propose_issuer_transfer", "accept_issuer_transfer", "cancel_issuer_transfer"}

\* What every entry point of FrozenGated answers, over all the arguments.
gated_results ==
    UNION {
        { register_offering_result(i, t, 5000, a, auth),
          report_revenue_result(i, t, a, 100, 1, FALSE, auth),
          deposit_revenue_result(i, t, a, 100, 1, auth, TRUE),
          set_claim_delay_result(i, t, 1, auth),
          set_concentration_limit_result(i, t, 5000, TRUE, auth),
          report_concentration_result(i, t, 5000, auth),
          propose_issuer_transfer_result(t, i, auth),
          accept_issuer_transfer_result(t, auth),
          cancel_issuer_transfer_result(t, auth) }
        \cup { set_holder_share_result(i, t, h, 5000, auth) : h \in Holders }
        \cup { set_rounding_mode_result(i, t, m, auth) : m \in Modes }
        \cup { blacklist_result(i, t, h, auth) : h \in Holders }
        : i \in Issuers, t \in Tokens, a \in Assets, auth \in Issuers }

\* What claim answers, over all the arguments.
claim_results ==
    { claim_result(h, t, 0, auth, ok) :
        h \in Holders, t \in Tokens, auth \in Holders, ok \in BOOLEAN }

\* C13: while Frozen is set, every state-mutating entry point other than
\* claim fails with ContractFrozen and leaves the persisted state unchanged;
\* claim is not gated by Frozen.
C13_frozen_rejects_writes ==
    /\ [](frozen => gated_results = {"ContractFrozen"})
    /\ [][(frozen /\ last'.op \in FrozenGated) =>
            /\ last'.result = "ContractFrozen"
            /\ UNCHANGED <<storage, claimHist>>]_vars

C13_witness ==
    /\ frozen
    /\ last.op = "deposit_revenue" /\ last.result = "ContractFrozen"
    /\ offeringIssuer["T"] = "I"
    /\ periodEntry["T"] = <<>>

\* C13 as stated: claim too fails with ContractFrozen while Frozen is set.
C13_as_stated ==
    /\ [](frozen => gated_results \cup claim_results = {"ContractFrozen"})
    /\ [][(frozen /\ last'.op \in FrozenGated \cup {"claim"}) =>
            /\ last'.result = "ContractFrozen"
            /\ UNCHANGED <<storage, claimHist>>]_vars

\* C14: while Paused is set and the contract is not frozen, every
\* state-mutating entry point (those of FrozenGated and claim) fails and
\* leaves the persisted state unchanged.
C14_as_stated ==
    /\ []((paused /\ ~frozen) => "Ok" \notin gated_results \cup claim_results)
    /\ [][(paused /\ ~frozen /\ last'.op \in FrozenGated \cup {"claim"}) =>
            /\ last'.result # "Ok"
            /\ UNCHANGED <<storage, claimHist>>]_vars

\* The holder's next unclaimed period exists and its delay has elapsed.
next_period_ready(token, holder) ==
    /\ lastClaimedIdx[token, holder] < Len(periodEntry[token])
    /\ LET period_id == periodEntry[token][lastClaimedIdx[token, holder] + 1]
       IN  periodDepositTime[token][period_id] + claimDelaySecs[token] <= now

\* C15: in a frozen contract a holder who is not blacklisted, has a positive
\* share and has a ready unclaimed period claims successfully (the payment
\* token's transfer succeeding), and the claim advances the cursor.
C15_frozen_claim_succeeds ==
    /\ [](\A token \in Tokens, holder \in Holders :
            (/\ frozen
             /\ holder \notin blacklist[token]
             /\ holderShare[token, holder] > 0
             /\ next_period_ready(token, holder))
            => claim_result(holder, token, 0, holder, TRUE) = "Ok")
    /\ [][(frozen /\ claim_result("H", "T", 0, "H", TRUE) = "Ok" /\ ClaimAll) =>
            /\ last'.result = "Ok" /\ last'.payout > 0
            /\ lastClaimedIdx'["T", "H"] > lastClaimedIdx["T", "H"]]_vars

C15_witness ==
    /\ frozen
    /\ last.op = "claim" /\ last.result = "Ok" /\ last.payout = 50
    /\ lastClaimedIdx["T", "H"] = 1
    /\ claimDelaySecs["T"] = 1

\* C16: the admin is write-once.  Once it is set no step changes it; a second
\* initialize panics and a second set_admin, authorized by its argument,
\* fails with LimitReached; both leave Admin, Safety and Paused (and all the
\* rest of the state) unchanged.
C16_admin_write_once ==
    /\ [](admin # None =>
            \A new_admin \in Admins :
                /\ \A new_safety \in Admins \cup {None} :
                        initialize_result(new_admin, new_safety) = "Panic"
                /\ set_admin_result(new_admin, new_admin) = "LimitReached"
                /\ \A auth \in Principals : set_admin_result(new_admin, auth) # "Ok")
    /\ [][admin # None =>
            /\ admin' = admin
            /\ (now' = now /\ last'.op \in {"initialize", "set_admin"}) =>
                    /\ last'.result \in {"Panic", "LimitReached"}
                    /\ UNCHANGED <<storage, claimHist>>]_vars

C16_witness ==
    /\ admin = "A" /\ safety = "S" /\ paused
    /\ last.op = "initialize" /\ last.result = "Panic"

\* C17: the pause entry points fail for a caller who is not the holder of
\* their role (admin or safety), freeze and set_testnet_mode fail without
\* the admin's authorization, and a failed call changes no state.  Called by
\* the right role, pause sets Paused and unpause clears it whatever its
\* previous value and whoever set it; Paused, Frozen and TestnetMode change
\* in no other way.
C17_role_gated ==
    /\ [](\A caller \in Principals, auth \in Principals :
            /\ (caller # admin \/ auth # caller) => role_result(caller, admin, auth) = "Panic"
            /\ (caller # safety \/ auth # caller) => role_result(caller, safety, auth) = "Panic"
            /\ auth # admin => admin_result(auth) \in {"Panic", "LimitReached"})
    /\ [](/\ admin # None => role_result(admin, admin, admin) = "Ok"
                              /\ admin_result(admin) = "Ok"
          /\ safety # None => role_result(safety, safety, safety) = "Ok")
    /\ [][/\ \A caller \in Admins :
               /\ pause_admin(caller, caller) =>
                    IF caller = admin THEN paused' ELSE UNCHANGED storage
               /\ unpause_admin(caller, caller) =>
                    IF caller = admin THEN ~paused' ELSE UNCHANGED storage
               /\ pause_safety(caller, caller) =>
                    IF caller = safety THEN paused' ELSE UNCHANGED storage
               /\ unpause_safety(caller, caller) =>
                    IF caller = safety THEN ~paused' ELSE UNCHANGED storage
               /\ freeze(caller) =>
                    IF caller = admin THEN frozen' ELSE UNCHANGED storage
               /\ \A enabled \in BOOLEAN : set_testnet_mode(enabled, caller) =>
                    IF caller = admin THEN testnetMode' = enabled ELSE UNCHANGED storage
          /\ paused' # paused =>
                /\ last'.result = "Ok"
                /\ last'.op \in (IF paused' THEN {"pause_admin", "pause_safety"}
                                 ELSE {"unpause_admin", "unpause_safety"})
          /\ frozen' # frozen => last'.op = "freeze" /\ last'.result = "Ok"
          /\ testnetMode' # testnetMode =>
                last'.op = "set_testnet_mode" /\ last'.result = "Ok"]_vars

C17_witness ==
    /\ admin = "A" /\ safety = "S" /\ ~paused
    /\ last.op = "unpause_safety" /\ last.result = "Ok"

\* ------------------------------------------------------------ blacklist
\* Either issuer adds and removes holders on the blacklists of both tokens
\* while one offering is registered, funded and claimed.
BlacklistAddAny ==
    \E caller \in Issuers, token \in Tokens, investor \in Holders, auth \in Issuers :
        blacklist_add(caller, token, investor, auth)

BlacklistRemoveAny ==
    \E caller \in Issuers, token \in Tokens, investor \in Holders, auth \in Issuers :
        blacklist_remove(caller, token, investor, auth)

NextBlacklist ==
    \/ RegisterOne \/ DepositOnce \/ ShareOnce \/ ClaimAll
    \/ BlacklistAddAny \/ BlacklistRemoveAny

SpecBlacklist == Init /\ [][NextBlacklist]_vars

\* C18: a claim by a holder blacklisted for the token fails with
\* HolderBlacklisted in every state, whatever the share and the pending
\* periods, pays nothing and leaves the cursor (and all state) unchanged; a
\* successful blacklist_remove leaves the cursor where it was and the holder
\* can claim again from it.
C18_blacklisted_claim_rejected ==
    /\ [](\A token \in Tokens, holder \in Holders :
            holder \in blacklist[token] =>
                \A max_periods \in 0..1, transfer_ok \in BOOLEAN :
                    claim_result(holder, token, max_periods, holder, transfer_ok)
                        = "HolderBlacklisted")
    /\ [][/\ ("H" \in blacklist["T"] /\ ClaimAll) =>
                /\ last'.result = "HolderBlacklisted" /\ last'.payout = 0
                /\ UNCHANGED <<storage, claimHist>>
          /\ \A caller \in Issuers :
                ("H" \in blacklist["T"] /\ blacklist_remove(caller, "T", "H", caller)) =>
                    /\ lastClaimedIdx' = lastClaimedIdx
                    /\ claim_result("H", "T", 0, "H", TRUE)' # "HolderBlacklisted"
                    /\ (holderShare["T", "H"] > 0 /\ next_period_ready("T", "H")) =>
                            claim_result("H", "T", 0, "H", TRUE)' = "Ok"]_vars

C18_witness ==
    /\ "H" \in blacklist["T"]
    /\ last.op = "claim" /\ last.result = "HolderBlacklisted"
    /\ holderShare["T", "H"] = 5000
    /\ Len(periodEntry["T"]) = 1 /\ lastClaimedIdx["T", "H"] = 0

\* C19: on a registered token, blacklist_add and blacklist_remove called by
\* anyone but the token's issuer of record fail and leave the blacklist
\* unchanged, even when the caller authorizes the call.
C19_as_stated ==
    /\ [](\A token \in Tokens, caller \in Issuers, investor \in Holders :
            (offeringIssuer[token] # None /\ caller # offeringIssuer[token]) =>
                blacklist_result(caller, token, investor, caller) # "Ok")
    /\ [][\A token \in Tokens, caller \in Issuers, investor \in Holders :
            (/\ offeringIssuer[token] # None /\ caller # offeringIssuer[token]
             /\ \/ blacklist_add(caller, token, investor, caller)
                \/ blacklist_remove(caller, token, investor, caller)) =>
                /\ last'.result # "Ok"
                /\ blacklist' = blacklist]_vars

\* C20: blacklist operations are idempotent set operations scoped per token.
\* A call authorized by its caller succeeds; after blacklist_add the investor
\* is a member, after blacklist_remove not, and membership of every other
\* (token, investor) is as before, so adding a member and removing a
\* non-member change nothing; membership changes in no other step, so the
\* investor is a member exactly when the last successful add/remove for the
\* pair was an add.
C20_blacklist_set_semantics ==
    [][/\ \A caller \in Issuers, token \in Tokens, investor \in Holders :
            LET others_kept ==
                    \A t \in Tokens, h \in Holders :
                        <<t, h>> # <<token, investor>> =>
                            (h \in blacklist'[t] <=> h \in blacklist[t])
            IN  /\ blacklist_add(caller, token, investor, caller) =>
                    /\ last'.result = "Ok"
                    /\ is_blacklisted(token, investor)'
                    /\ others_kept
                    /\ investor \in blacklist[token] => blacklist' = blacklist
                /\ blacklist_remove(caller, token, investor, caller) =>
                    /\ last'.result = "Ok"
                    /\ ~is_blacklisted(token, investor)'
                    /\ others_kept
                    /\ investor \notin blacklist[token] => blacklist' = blacklist
       /\ \A token \in Tokens, investor \in Holders :
            (investor \in blacklist'[token]) # (investor \in blacklist[token]) =>
                /\ last'.result = "Ok"
                /\ last'.op = IF investor \in blacklist'[token]
                              THEN "blacklist_add" ELSE "blacklist_remove"]_vars

C20_witness ==
    /\ blacklist["T"] = {"H"} /\ blacklist["U"] = {"G"}
    /\ last.op = "blacklist_remove" /\ last.result = "Ok"
    /\ last.events = <<"bl_rem">>

\* ------------------------------------------------------------ claim outcomes
\* The holder has a share, is not blacklisted and has an unclaimed period.
claim_pending(token, holder) ==
    /\ holderShare[token, holder] > 0
    /\ holder \notin blacklist[token]
    /\ lastClaimedIdx[token, holder] < Len(periodEntry[token])

\* C21: when the first unclaimed period of a holder with a share, not
\* blacklisted, is still inside the claim delay, claim fails with
\* ClaimDelayNotElapsed, pays nothing and changes no state; from the moment
\* the clock reaches deposit_timestamp + delay the claim (its transfer
\* succeeding) succeeds and processes that period first.
C21_delay_blocks_then_releases ==
    /\ [](\A token \in Tokens, holder \in Holders :
            claim_pending(token, holder) =>
                IF next_period_ready(token, holder)
                THEN \A max_periods \in LedgerBatch :
                        claim_result(holder, token, max_periods, holder, TRUE) = "Ok"
                ELSE \A max_periods \in LedgerBatch, transfer_ok \in BOOLEAN :
                        claim_result(holder, token, max_periods, holder, transfer_ok)
                            = "ClaimDelayNotElapsed")
    /\ [][(claim_pending("T", "H") /\ last'.op = "claim" /\ now' = now) =>
                IF next_period_ready("T", "H")
                THEN last'.result = "Ok" =>
                        /\ last'.claimed[1] = lastClaimedIdx["T", "H"]
                        /\ last'.payout >= claim_payout(
                               periodRevenue["T"][period_entry("T", lastClaimedIdx["T", "H"])],
                               holderShare["T", "H"])
                        /\ lastClaimedIdx'["T", "H"] > lastClaimedIdx["T", "H"]
                ELSE /\ last'.result = "ClaimDelayNotElapsed"
                     /\ last'.payout = 0
                     /\ UNCHANGED <<storage, claimHist>>]_vars

C21_witness ==
    /\ last.op = "claim" /\ last.result = "ClaimDelayNotElapsed"
    /\ claim_pending("T", "H")
    /\ claimDelaySecs["T"] = 1
    /\ now < periodDepositTime["T"][period_entry("T", lastClaimedIdx["T", "H"])] + 1

\* ------------------------------------------------------------ the bps domain
\* The admin switches testnet mode on and off while issuer I registers
\* offerings and sets holder shares with values at and above 10000.
DomainBps == {10000, 10001}

StartAdmin == admin = None /\ initialize("A", None)

RegisterBps ==
    /\ offer_total < MaxOffers
    /\ \E token \in Tokens, revenue_share_bps \in DomainBps :
            register_offering("I", token, revenue_share_bps, "P", "I")

ShareBps ==
    \E holder \in Holders, share_bps \in DomainBps \cup {0} :
        set_holder_share("I", "T", holder, share_bps, "I")

NextDomain == StartAdmin \/ SetTestnetMode \/ RegisterBps \/ ShareBps

SpecDomain == Init /\ [][NextDomain]_vars

\* Every offering stored has revenue_share_bps <= 10000.
offerings_in_domain ==
    \A issuer \in Issuers : \A k \in 1..Len(offerItem[issuer]) :
        offerItem[issuer][k].revenue_share_bps <= BPS_DENOMINATOR

\* C22: every stored holder share is <= 10000 in every state, testnet mode on
\* or off, and set_holder_share refuses a larger value; register_offering
\* refuses revenue_share_bps > 10000 and stores none while testnet mode is
\* off, so every offering registered with testnet mode off is <= 10000.  With
\* testnet mode on register_offering makes no such check.
C22_bps_domain ==
    /\ [](\A token \in Tokens, holder \in Holders :
            /\ holderShare[token, holder] <= BPS_DENOMINATOR
            /\ \A issuer \in Issuers :
                 set_holder_share_result(issuer, token, holder, 10001, issuer) # "Ok")
    /\ [](~testnetMode =>
            \A issuer \in Issuers, token \in Tokens :
                register_offering_result(issuer, token, 10001, "P", issuer)
                    = "InvalidRevenueShareBps")
    /\ [][\A issuer \in Issuers :
            (~testnetMode /\ Len(offerItem'[issuer]) > Len(offerItem[issuer])) =>
                offerItem'[issuer][Len(offerItem'[issuer])].revenue_share_bps
                    <= BPS_DENOMINATOR]_vars

C22_witness ==
    /\ testnetMode
    /\ last.op = "set_holder_share" /\ last.result = "InvalidShareBps"
    /\ holderShare["T", "H"] = 10000
    /\ offerings_in_domain

\* C22 as stated: in every state, testnet mode or not, every stored offering
\* and every stored holder share is <= 10000.
C22_as_stated ==
    /\ offerings_in_domain
    /\ \A token \in Tokens, holder \in Holders :
            holderShare[token, holder] <= BPS_DENOMINATOR

\* ------------------------------------------------------------ compute_share
\* compute_share is called with amounts of both signs, among them amounts
\* whose product with the bps leaves the i128 range, and every bps boundary.
\* The call writes nothing; `last` records the returned share in payout, the
\* arguments <<amount, revenue_share_bps>> in claimed and the mode in events.
ShareAmounts ==
    {-200000, -100001, -100000, -3, -1, 0, 1, 3, 100, 100000, 100001, 200000}
ShareRates == {0, 1, 4999, 5000, 5001, 9999, 10000, 10001}

ComputeShare ==
    \E amount \in ShareAmounts, revenue_share_bps \in ShareRates, mode \in Modes :
        /\ last' = [op |-> "compute_share", result |-> "Ok",
                    payout |-> compute_share(amount, revenue_share_bps, mode),
                    claimed |-> <<amount, revenue_share_bps>>,
                    events |-> <<mode>>]
        /\ UNCHANGED <<storage, now, claimHist>>

NextShare == ComputeShare

SpecShare == Init /\ [][NextShare]_vars

\* C23: for every amount, every bps <= 10000 and both modes the share lies
\* in [min(0, amount), max(0, amount)]: its magnitude is at most |amount| and
\* it is 0 or has the sign of amount, also when amount * bps overflows.
C23_share_within_amount ==
    (last.op = "compute_share" /\ last.claimed[2] <= BPS_DENOMINATOR) =>
        LET amount == last.claimed[1]
            share  == last.payout
        IN  /\ Min(0, amount) <= share /\ share <= Max(0, amount)
            /\ (IF share >= 0 THEN share ELSE -share)
                    <= (IF amount >= 0 THEN amount ELSE -amount)
            /\ share = 0 \/ (share > 0 <=> amount > 0)

C23_witness ==
    /\ last.op = "compute_share"
    /\ last.claimed = <<100001, 10000>> /\ last.events = <<"RoundHalfUp">>
    /\ mul_overflows(100001, 10000)
    /\ last.payout = 0

\* ------------------------------------------------------------ the payment-token lock
\* Both issuers register token T with either asset and deposit in either
\* asset, with transfers that succeed or fail; T is handed over between them.
RegisterAsset ==
    /\ offer_total < MaxOffers
    /\ \E issuer \in Issuers, payout_asset \in Assets :
            register_offering(issuer, "T", 5000, payout_asset, issuer)

DepositAsset ==
    \E issuer \in Issuers, payment_token \in Assets, period_id \in PeriodIds,
       transfer_ok \in BOOLEAN :
        deposit_revenue(issuer, "T", payment_token, 100, period_id, issuer, transfer_ok)

NextLock == RegisterAsset \/ DepositAsset \/ HandOver \/ TakeOver

SpecLock == Init /\ [][NextLock]_vars

\* C24: once a successful deposit_revenue has pinned the payment token of a
\* token, no step changes it; a period is recorded only by a successful
\* deposit made in the pinned asset; and no deposit in another asset
\* succeeds or records a period: made by the current issuer, authorized, for
\* a period not yet deposited, it fails with PayoutAssetMismatch or
\* PaymentTokenMismatch.
C24_payment_token_write_once ==
    /\ [](\A token \in Tokens : paymentToken[token] # None =>
            \A issuer \in Issuers, payment_token \in Assets \ {paymentToken[token]},
               period_id \in PeriodIds, transfer_ok \in BOOLEAN :
                LET r == deposit_revenue_result(issuer, token, payment_token, 100,
                                                period_id, issuer, transfer_ok)
                IN  /\ r # "Ok"
                    /\ (/\ offeringIssuer[token] = issuer
                        /\ get_offering(issuer, token) # <<>>
                        /\ period_id \notin DOMAIN periodRevenue[token])
                       => r \in {"PayoutAssetMismatch", "PaymentTokenMismatch"})
    /\ [][\A token \in Tokens :
            /\ paymentToken[token] # None => paymentToken'[token] = paymentToken[token]
            /\ paymentToken'[token] # paymentToken[token] =>
                    last'.op = "deposit_revenue" /\ last'.result = "Ok"
            /\ periodEntry'[token] # periodEntry[token] =>
                    /\ last'.op = "deposit_revenue" /\ last'.result = "Ok"
                    /\ paymentToken'[token] # None
                    /\ \E issuer \in Issuers, period_id \in PeriodIds :
                            deposit_revenue(issuer, token, paymentToken'[token], 100,
                                            period_id, issuer, TRUE)]_vars

C24_witness ==
    /\ paymentToken["T"] = "P"
    /\ last.op = "deposit_revenue" /\ last.result = "PaymentTokenMismatch"
    /\ Len(periodEntry["T"]) = 1

\* ------------------------------------------------------------ the concentration guardrail
\* Issuer I configures the limit of its offering, reports concentrations at
\* and above it and reports revenue, while the admin switches testnet mode.
LimitBps == {0, 5000}
ConcentrationBps == {5000, 5001}

SetLimit ==
    \E max_bps \in LimitBps, enforce \in BOOLEAN :
        set_concentration_limit("I", "T", max_bps, enforce, "I")

ReportConcentration ==
    \E concentration_bps \in ConcentrationBps :
        report_concentration("I", "T", concentration_bps, "I")

ReportOnce ==
    /\ audit_summary_of("I", "T").report_count < MaxReports
    /\ report_revenue("I", "T", "P", 100, 1, FALSE, "I")

NextGuardrail ==
    \/ StartAdmin \/ SetTestnetMode \/ RegisterOne
    \/ SetLimit \/ ReportConcentration \/ ReportOnce

SpecGuardrail == Init /\ [][NextGuardrail]_vars

\* Enforcement applies to (issuer, token): testnet mode is off, a limit is
\* stored with enforce = true and max_bps > 0, and the last reported
\* concentration (0 when none was reported) is above max_bps.
limit_enforced(issuer, token) ==
    /\ ~testnetMode
    /\ concentrationLimit[issuer, token] # <<>>
    /\ concentrationLimit[issuer, token][1].enforce
    /\ concentrationLimit[issuer, token][1].max_bps > 0
    /\ currentConcentration[issuer, token] # <<>>
    /\ currentConcentration[issuer, token][1] > concentrationLimit[issuer, token][1].max_bps

\* C25: a report_revenue that passes the frozen, issuer, paused,
\* authorization and payout-asset checks fails with
\* ConcentrationLimitExceeded exactly when enforcement applies, and then
\* changes neither the reports nor the audit summary nor any other state; no
\* report_revenue fails with that error when enforcement does not apply.
C25_concentration_enforced ==
    /\ [](\A issuer \in Issuers, token \in Tokens, payout_asset \in Assets,
             override_existing \in BOOLEAN :
            LET r == report_revenue_result(issuer, token, payout_asset, 100, 1,
                                           override_existing, issuer)
            IN  /\ r = "ConcentrationLimitExceeded" => limit_enforced(issuer, token)
                /\ (/\ limit_enforced(issuer, token)
                    /\ ~frozen /\ ~paused
                    /\ offeringIssuer[token] = issuer
                    /\ get_offering(issuer, token) # <<>>
                    /\ get_offering(issuer, token)[1].payout_asset = payout_asset)
                   => r = "ConcentrationLimitExceeded")
    /\ [][(last'.op = "report_revenue") =>
            IF limit_enforced("I", "T")
            THEN /\ last'.result = "ConcentrationLimitExceeded"
                 /\ UNCHANGED <<storage, claimHist>>
            ELSE last'.result # "ConcentrationLimitExceeded"]_vars

C25_witness ==
    /\ last.op = "report_revenue" /\ last.result = "ConcentrationLimitExceeded"
    /\ limit_enforced("I", "T")
    /\ auditSummary["I", "T"] = <<>>

\* ------------------------------------------------------------ the audit path
\* Issuer I reports revenue for its offering, repeating periods with and
\* without the override flag, while the clock advances.
AuditAmounts == {100, 200}

ReportAudit ==
    /\ audit_summary_of("I", "T").report_count < MaxAudit
    /\ \E amount \in AuditAmounts, period_id \in PeriodIds, override_existing \in BOOLEAN :
            report_revenue("I", "T", "P", amount, period_id, override_existing, "I")

NextAudit == RegisterOne \/ ReportAudit \/ Tick

SpecAudit == Init /\ [][NextAudit]_vars

\* C26: a successful report_revenue for a period already reported leaves that
\* period's stored (amount, timestamp) as it was when override_existing is
\* false, and the call still succeeds; with override_existing true, or for a
\* period not yet reported, it stores (amount, now); the reports of the other
\* periods stay, and nothing else changes a stored report.
C26_report_override_explicit ==
    /\ [](\A period_id \in DOMAIN revenueReports["I", "T"], amount \in AuditAmounts :
            (offeringIssuer["T"] = "I") =>
                report_revenue_result("I", "T", "P", amount, period_id, FALSE, "I") = "Ok")
    /\ [][/\ \A amount \in AuditAmounts, period_id \in PeriodIds,
                override_existing \in BOOLEAN :
               (/\ last'.result = "Ok"
                /\ report_revenue("I", "T", "P", amount, period_id, override_existing, "I"))
               => LET reports == revenueReports["I", "T"]
                      after   == revenueReports'["I", "T"]
                  IN  /\ DOMAIN after = DOMAIN reports \cup {period_id}
                      /\ \A p \in DOMAIN reports \ {period_id} : after[p] = reports[p]
                      /\ after[period_id] =
                            IF period_id \in DOMAIN reports /\ ~override_existing
                            THEN reports[period_id]
                            ELSE [amount |-> amount, timestamp |-> now]
          /\ revenueReports' # revenueReports =>
                last'.op = "report_revenue" /\ last'.result = "Ok"]_vars

C26_witness ==
    /\ last.op = "report_revenue" /\ last.result = "Ok"
    /\ last.events = <<"rev_rej", "rev_reja", "rev_rep", "rev_repa">>
    /\ 1 \in DOMAIN revenueReports["I", "T"]
    /\ revenueReports["I", "T"][1] = [amount |-> 100, timestamp |-> 0]
    /\ now = 1
    /\ audit_summary_of("I", "T") = [total_revenue |-> 300, report_count |-> 2]

\* C27: every successful state-mutating call publishes at least one event:
\* no step changes the persisted state without an event of the call.
C27_as_stated ==
    [][storage' # storage => (last'.result = "Ok" /\ last'.events # <<>>)]_vars

\* ------------------------------------------------------------ draining a holder's claims
\* Holder H, whose share is set once, claims one period per call, again and
\* again, while the clock advances.  Deposits stop when the period ids are
\* used up, and are made before the last instant of the bounded clock, so
\* that the delay of every deposited period elapses within it.
DrainDeposit ==
    /\ now < MaxTime
    /\ \E period_id \in PeriodIds : deposit_revenue("I", "T", "P", 100, period_id, "I", TRUE)

DrainClaim == claim("H", "T", 1, "H", TRUE)

NextDrain ==
    RegisterOne \/ ShareOnce \/ DelayOnce \/ DrainDeposit \/ DrainClaim \/ Tick

\* The holder keeps claiming and time keeps advancing.
SpecDrain ==
    Init /\ [][NextDrain]_vars /\ WF_vars(DrainClaim) /\ WF_vars(Tick)

\* C28: for a holder with a positive share, not blacklisted, repeated claims
\* bring the cursor to the period count once deposits have stopped; there
\* every claim fails with NoPendingClaims; the cursor never decreases; and
\* after a later deposit the claim succeeds again, starting at the cursor, as
\* soon as the new period is ready.
C28_claims_drain ==
    /\ [][lastClaimedIdx'["T", "H"] >= lastClaimedIdx["T", "H"]]_vars
    /\ [](holderShare["T", "H"] > 0 =>
            IF lastClaimedIdx["T", "H"] = Len(periodEntry["T"])
            THEN \A max_periods \in 0..1, transfer_ok \in BOOLEAN :
                    claim_result("H", "T", max_periods, "H", transfer_ok)
                        = "NoPendingClaims"
            ELSE next_period_ready("T", "H") =>
                    claim_result("H", "T", 1, "H", TRUE) = "Ok")
    /\ [][(holderShare["T", "H"] > 0 /\ DrainClaim /\ last'.result = "Ok") =>
            /\ last'.claimed = <<lastClaimedIdx["T", "H"]>>
            /\ lastClaimedIdx'["T", "H"] = lastClaimedIdx["T", "H"] + 1]_vars
    /\ (holderShare["T", "H"] > 0)
            ~> [](lastClaimedIdx["T", "H"] = Len(periodEntry["T"]))

C28_witness ==
    /\ holderShare["T", "H"] > 0
    /\ lastClaimedIdx["T", "H"] = 2 /\ Len(periodEntry["T"]) = 2
    /\ claimDelaySecs["T"] = 1
    /\ last.op = "claim" /\ last.result = "NoPendingClaims"

\* ------------------------------------------------------------ claim batches
\* The issuer deposits up to MaxBatch periods, one per call, before the
\* holder's first claim; the holder then claims with batch sizes below, at
\* and above the cap.  A claim delay may be set, which blocks every period
\* since the clock stands still here.
BatchSizes == {0, 2, 51}

BatchDeposit ==
    /\ Len(periodEntry["T"]) < MaxBatch
    /\ lastClaimedIdx["T", "H"] = 0
    /\ deposit_revenue("I", "T", "P", 100, Len(periodEntry["T"]) + 1, "I", TRUE)

BatchClaim == \E max_periods \in BatchSizes : claim("H", "T", max_periods, "H", TRUE)

NextBatch == RegisterOne \/ ShareOnce \/ DelayOnce \/ BatchDeposit \/ BatchClaim

SpecBatch == Init /\ [][NextBatch]_vars

\* Index i (from 0) of the token's period list is past its claim delay.
ready_at(token, i) ==
    periodDepositTime[token][periodEntry[token][i + 1]] + claimDelaySecs[token] <= now

\* The number of consecutive ready periods from index i on.
RECURSIVE ready_run(_, _)
ready_run(token, i) ==
    IF i >= Len(periodEntry[token]) \/ ~ready_at(token, i) THEN 0
    ELSE 1 + ready_run(token, i + 1)

\* C29: a successful claim advances the cursor by exactly
\* min(effective_max, consecutive ready periods from the cursor), with
\* effective_max = 50 for max_periods = 0 or > 50 and max_periods otherwise;
\* it processes at most 50 periods, and what is left over is claimable by the
\* next call.
C29_batch_size ==
    /\ [][\A max_periods \in BatchSizes \cup LedgerBatch :
            (last'.result = "Ok" /\ claim("H", "T", max_periods, "H", TRUE)) =>
                LET cursor == lastClaimedIdx["T", "H"]
                    cap    == IF max_periods = 0 \/ max_periods > 50 THEN 50
                              ELSE max_periods
                IN  /\ lastClaimedIdx'["T", "H"] - cursor
                            = Min(cap, ready_run("T", cursor))
                    /\ Len(last'.claimed) = lastClaimedIdx'["T", "H"] - cursor
                    /\ Len(last'.claimed) <= 50]_vars
    /\ [](\A max_periods \in BatchSizes :
            (/\ holderShare["T", "H"] > 0
             /\ lastClaimedIdx["T", "H"] < Len(periodEntry["T"])
             /\ ready_at("T", lastClaimedIdx["T", "H"]))
            => claim_result("H", "T", max_periods, "H", TRUE) = "Ok")

C29_witness ==
    /\ last.op = "claim" /\ last.result = "Ok"
    /\ Len(last.claimed) = 50
    /\ lastClaimedIdx["T", "H"] = 50
    /\ Len(periodEntry["T"]) = 51

\* C30: a claim whose total payout is 0 succeeds and advances the cursor
\* past the periods it processed without invoking the external transfer (it
\* succeeds also when a transfer would fail); a claim whose total is > 0
\* invokes exactly one transfer, of the amount it returns, and fails when
\* that transfer fails.
C30_transfer_iff_positive ==
    /\ [](\A max_periods \in LedgerBatch :
            claim_result("H", "T", max_periods, "H", TRUE) = "Ok" =>
                LET total == claim_scan("T", "H", max_periods).total_payout
                IN  IF total > 0
                    THEN /\ claim_transfers("T", "H", max_periods) = <<total>>
                         /\ claim_result("H", "T", max_periods, "H", FALSE) = "Panic"
                    ELSE /\ claim_transfers("T", "H", max_periods) = <<>>
                         /\ claim_result("H", "T", max_periods, "H", FALSE) = "Ok")
    /\ [][(last'.op = "claim" /\ last'.result = "Ok" /\ now' = now) =>
            /\ Len(last'.claimed) >= 1
            /\ lastClaimedIdx'["T", "H"] = lastClaimedIdx["T", "H"] + Len(last'.claimed)
            /\ \E max_periods \in LedgerBatch :
                    last'.payout = claim_scan("T", "H", max_periods).total_payout]_vars

C30_witness ==
    /\ last.op = "claim" /\ last.result = "Ok"
    /\ last.payout = 0 /\ last.claimed = <<0>>
    /\ lastClaimedIdx["T", "H"] = 1
    /\ holderShare["T", "H"] = 5000
    /\ periodRevenue["T"][period_entry("T", 0)] = 1

\* ------------------------------------------------------------ a share set after the deposits
\* The issuer deposits periods while the holder's share is 0 or 2500 only, and
\* sets the share to 0, 2500 or 5000 at any time; the holder claims everything
\* pending.  A claim made at share 5000 is therefore of periods deposited
\* while the share was another one.
LateShares  == {0, 2500, 5000}
LateAmounts == {100, 300}

LateDeposit ==
    /\ holderShare["T", "H"] # 5000
    /\ \E amount \in LateAmounts, period_id \in PeriodIds :
            deposit_revenue("I", "T", "P", amount, period_id, "I", TRUE)

LateShare ==
    \E share_bps \in LateShares : set_holder_share("I", "T", "H", share_bps, "I")

NextLateShare == RegisterOne \/ LateDeposit \/ LateShare \/ ClaimAll

SpecLateShare == Init /\ [][NextLateShare]_vars

\* The sum, over the period indices from..to-1 of the token's list, of
\* revenue * share_bps / 10000.
RECURSIVE paid_at_share(_, _, _, _)
paid_at_share(token, from, to, share_bps) ==
    IF from >= to THEN 0
    ELSE (periodRevenue[token][periodEntry[token][from + 1]] * share_bps) \div 10000
         + paid_at_share(token, from + 1, to, share_bps)

\* C31: a claim pays every period it processes at the share the holder has
\* when claiming, whatever the share was when the period was deposited; at
\* share 0 the claim fails with NoPendingClaims and the cursor stays, so
\* that once a share is set every earlier unclaimed period is claimable, and
\* is paid at that share.
C31_share_at_claim_time ==
    /\ [](holderShare["T", "H"] = 0
            => claim_result("H", "T", 0, "H", TRUE) = "NoPendingClaims")
    /\ []((holderShare["T", "H"] > 0
             /\ lastClaimedIdx["T", "H"] < Len(periodEntry["T"]))
            => /\ claim_result("H", "T", 0, "H", TRUE) = "Ok"
               /\ claim_scan("T", "H", 0).last_claimed_idx = Len(periodEntry["T"])
               /\ claim_scan("T", "H", 0).total_payout
                    = paid_at_share("T", lastClaimedIdx["T", "H"],
                                    Len(periodEntry["T"]), holderShare["T", "H"]))
    /\ [][last'.op = "claim" =>
            IF holderShare["T", "H"] = 0
            THEN /\ last'.result = "NoPendingClaims"
                 /\ lastClaimedIdx' = lastClaimedIdx
            ELSE last'.result = "Ok" =>
                    /\ lastClaimedIdx'["T", "H"] = Len(periodEntry["T"])
                    /\ last'.payout
                         = paid_at_share("T", lastClaimedIdx["T", "H"],
                                         lastClaimedIdx'["T", "H"],
                                         holderShare["T", "H"])]_vars

C31_witness ==
    /\ last.op = "claim" /\ last.result = "Ok"
    /\ holderShare["T", "H"] = 5000
    /\ last.claimed = <<0, 1>>
    /\ periodRevenue["T"][period_entry("T", 0)] = 100
    /\ periodRevenue["T"][period_entry("T", 1)] = 300
    /\ last.payout = 200

\* ------------------------------------------------------------ compute_share, rounding
\* compute_share on the inputs of ComputeShare and, at bps 1, on amounts at
\* and next to the limits of the integer range, whose product with the bps
\* fits the range while adding or subtracting the half saturates.
EdgeAmounts ==
    {I128_MAX, I128_MAX - 727, I128_MAX - 728, I128_MAX - 5000,
     -I128_MAX - 1, -I128_MAX + 727, -I128_MAX + 5000}

ComputeShareEdge ==
    \E amount \in EdgeAmounts, mode \in Modes :
        /\ last' = [op |-> "compute_share", result |-> "Ok",
                    payout |-> compute_share(amount, 1, mode),
                    claimed |-> <<amount, 1>>,
                    events |-> <<mode>>]
        /\ UNCHANGED <<storage, now, claimHist>>

NextRound == ComputeShare \/ ComputeShareEdge

SpecRound == Init /\ [][NextRound]_vars

Abs(x) == IF x >= 0 THEN x ELSE -x

\* amount * bps / 10000 truncated toward zero.
truncated(amount, bps) ==
    LET q == Abs(amount * bps) \div 10000
    IN  IF amount * bps >= 0 THEN q ELSE -q

\* amount * bps / 10000 rounded to the nearest integer, halves away from zero.
nearest(amount, bps) ==
    LET q == Abs(amount * bps) \div 10000
        r == Abs(amount * bps) % 10000
        n == IF r >= 5000 THEN q + 1 ELSE q
    IN  IF amount * bps >= 0 THEN n ELSE -n

\* C32 as stated: for bps <= 10000 and a product within the integer range,
\* compute_share is amount*bps/10000 truncated toward zero under Truncation
\* and rounded to the nearest integer, halves away from zero, under
\* RoundHalfUp; for bps > 10000 it is 0; RoundHalfUp is never smaller in
\* magnitude than Truncation.
C32_as_stated ==
    last.op = "compute_share" =>
        LET amount == last.claimed[1]
            bps    == last.claimed[2]
            mode   == last.events[1]
        IN  /\ bps > 10000 => last.payout = 0
            /\ (bps <= 10000 /\ amount * bps <= I128_MAX /\ amount * bps >= -I128_MAX - 1)
                    => last.payout = IF mode = "Truncation" THEN truncated(amount, bps)
                                     ELSE nearest(amount, bps)
            /\ Abs(compute_share(amount, bps, "RoundHalfUp"))
                    >= Abs(compute_share(amount, bps, "Truncation"))

\* ------------------------------------------------------------ listing an issuer's offerings
\* Either issuer registers offerings for token T, up to MaxList each.
ListRegister ==
    \E issuer \in Issuers :
        /\ Len(offerItem[issuer]) < MaxList
        /\ register_offering(issuer, "T", 5000, "P", issuer)

NextList == ListRegister

SpecList == Init /\ [][NextList]_vars

\* C33 as stated: list_offerings(issuer) holds the token of every offering of
\* the issuer's list, in list order, so its length is
\* get_offering_count(issuer), however many offerings are registered.
C33_as_stated ==
    \A issuer \in Issuers :
        /\ Len(list_offerings(issuer)) = get_offering_count(issuer)
        /\ list_offerings(issuer)
             = [i \in 1..Len(offerItem[issuer]) |-> offerItem[issuer][i].token]

\* ------------------------------------------------------------ the audit path and the custodial path
\* One offering with deposits, a holder share, claims and audit reports of
\* period 1, in any order.
PathReport ==
    /\ audit_summary_of("I", "T").report_count < MaxAudit
    /\ \E amount \in AuditAmounts, override_existing \in BOOLEAN :
            report_revenue("I", "T", "P", amount, 1, override_existing, "I")

NextPaths == RegisterOne \/ DrainDeposit \/ ShareOnce \/ ClaimAll \/ PathReport

SpecPaths == Init /\ [][NextPaths]_vars

\* C34: report_revenue changes neither the period revenues, deposit
\* timestamps, period index and count, payment-token lock, holder shares nor
\* claim cursors, so what a holder's claim returns is the same before and
\* after it; deposit_revenue and claim change neither the revenue reports nor
\* the audit summary.
C34_paths_disjoint ==
    /\ [][PathReport =>
            /\ UNCHANGED <<ledger, holders>>
            /\ claim_result("H", "T", 0, "H", TRUE)' = claim_result("H", "T", 0, "H", TRUE)
            /\ claim_scan("T", "H", 0)' = claim_scan("T", "H", 0)]_vars
    /\ [][(DrainDeposit \/ ClaimAll) => UNCHANGED audit]_vars

C34_witness ==
    /\ last.op = "report_revenue" /\ last.result = "Ok"
    /\ 1 \in DOMAIN revenueReports["I", "T"]
    /\ revenueReports["I", "T"][1].amount = 200
    /\ 1 \in DOMAIN periodRevenue["T"]
    /\ periodRevenue["T"][1] = 100
    /\ holderShare["T", "H"] = 5000
    /\ lastClaimedIdx["T", "H"] = 0

\* ------------------------------------------------------------ the claim preview
\* One offering whose periods are deposited at any time, a holder who may be
\* blacklisted, a claim delay, the clock, claims, and the two read-only
\* previews; `last` records what a preview returned (payout: the claimable
\* amount, claimed: the pending period ids).
PreviewDeposit ==
    \E period_id \in PeriodIds : deposit_revenue("I", "T", "P", 100, period_id, "I", TRUE)

GetClaimable ==
    /\ last' = [op |-> "get_claimable", result |-> "Ok",
                payout |-> get_claimable("T", "H"), claimed |-> <<>>, events |-> <<>>]
    /\ UNCHANGED <<storage, now, claimHist>>

GetPendingPeriods ==
    /\ last' = [op |-> "get_pending_periods", result |-> "Ok", payout |-> 0,
                claimed |-> get_pending_periods("T", "H"), events |-> <<>>]
    /\ UNCHANGED <<storage, now, claimHist>>

NextPreview ==
    \/ RegisterOne \/ PreviewDeposit \/ ShareOnce \/ DelayOnce \/ BlacklistAdd
    \/ ClaimAll \/ Tick \/ GetClaimable \/ GetPendingPeriods

SpecPreview == Init /\ [][NextPreview]_vars

\* The holder's share of every pending period of the token that is past its
\* claim delay, summed from index i on.
RECURSIVE ready_sum(_, _, _)
ready_sum(token, holder, i) ==
    IF i >= Len(periodEntry[token]) THEN 0
    ELSE (IF ready_at(token, i)
          THEN (periodRevenue[token][periodEntry[token][i + 1]]
                    * holderShare[token, holder]) \div 10000
          ELSE 0)
         + ready_sum(token, holder, i + 1)

\* C35: for a holder who is not blacklisted and has at most MAX_CLAIM_PERIODS
\* pending periods, get_claimable is the holder's share summed over the
\* pending periods past their delay, and it is the amount claim(holder,
\* token, 0) pays in the same state, 0 when that claim fails; get_claimable
\* and get_pending_periods return these values and change no state.
C35_preview_matches_claim ==
    /\ []((/\ "H" \notin blacklist["T"]
           /\ Len(periodEntry["T"]) - lastClaimedIdx["T", "H"] <= MAX_CLAIM_PERIODS)
            => /\ get_claimable("T", "H") = ready_sum("T", "H", lastClaimedIdx["T", "H"])
               /\ get_claimable("T", "H")
                    = IF claim_result("H", "T", 0, "H", TRUE) = "Ok"
                      THEN claim_scan("T", "H", 0).total_payout
                      ELSE 0)
    /\ [][(last'.op \in {"get_claimable", "get_pending_periods"} /\ now' = now) =>
            /\ UNCHANGED storage
            /\ last'.op = "get_claimable" => last'.payout = get_claimable("T", "H")
            /\ last'.op = "get_pending_periods" =>
                    /\ Len(last'.claimed) = Len(periodEntry["T"]) - lastClaimedIdx["T", "H"]
                    /\ \A k \in 1..Len(last'.claimed) :
                            last'.claimed[k] = periodEntry["T"][lastClaimedIdx["T", "H"] + k]]_vars

C35_witness ==
    /\ last.op = "get_claimable" /\ last.payout = 50
    /\ "H" \notin blacklist["T"]
    /\ lastClaimedIdx["T", "H"] = 0
    /\ Len(periodEntry["T"]) = 2
    /\ claimDelaySecs["T"] = 1
    /\ ready_at("T", 0) /\ ~ready_at("T", 1)
    /\ claim_result("H", "T", 0, "H", TRUE) = "Ok"

\* ------------------------------------------------------------ custody
\* Issuer I registers the tokens T and U, both paid out in asset P, gives the
\* holders of T a share of 10000 each, and deposits one period of 100 for
\* each token.  The payment token holds the contract's balance: what it
\* received through deposits less what claims have paid, and a transfer to
\* a holder succeeds exactly when the balance covers it.
RECURSIVE revenue_received(_, _)
revenue_received(token, i) ==
    IF i >= Len(periodEntry[token]) THEN 0
    ELSE periodRevenue[token][periodEntry[token][i + 1]] + revenue_received(token, i + 1)

RECURSIVE paid_to(_, _, _)
paid_to(token, holder, i) ==
    IF i >= Len(periodEntry[token]) THEN 0
    ELSE (IF i \in DOMAIN claimHist[token, holder]
          THEN claimHist[token, holder][i].paid ELSE 0)
         + paid_to(token, holder, i + 1)

\* What claims of the token have paid, to both holders.
paid_out(token) == paid_to(token, "H", 0) + paid_to(token, "G", 0)

\* The contract's balance in asset P.
custody_balance ==
    revenue_received("T", 0) + revenue_received("U", 0) - paid_out("T") - paid_out("U")

CustodyRegister ==
    \E token \in Tokens :
        /\ get_current_issuer(token) = None
        /\ register_offering("I", token, 5000, "P", "I")

CustodyShare ==
    \E holder \in Holders : set_holder_share("I", "T", holder, 10000, "I")

CustodyDeposit ==
    \E token \in Tokens : deposit_revenue("I", token, "P", 100, 1, "I", TRUE)

CustodyClaim ==
    \E holder \in Holders :
        claim(holder, "T", 0, holder,
              custody_balance >= claim_scan("T", holder, 0).total_payout)

NextCustody == CustodyRegister \/ CustodyShare \/ CustodyDeposit \/ CustodyClaim

SpecCustody == Init /\ [][NextCustody]_vars

\* C36 as stated: what claims have paid out in the asset never exceeds what
\* deposits have brought in, and what claims of one token have paid never
\* exceeds what was deposited for that token, whatever the holders' shares.
C36_as_stated ==
    /\ custody_balance >= 0
    /\ \A token \in Tokens : paid_out(token) <= revenue_received(token, 0)

\* ------------------------------------------------------------ registry well-formedness
\* C37: in every reachable state each issuer's offering items sit at the
\* indices 0 .. count - 1, and stay there when any one of them is removed by
\* swap-with-last; every item of an issuer's list has that issuer in its
\* issuer field; and for every token with an issuer of record, that issuer's
\* list holds an offering of the token, so that get_offering(current issuer,
\* token) is never none.
C37_registry_well_formed ==
    /\ \A issuer \in Issuers :
        /\ DOMAIN offerItem[issuer] = 1..get_offering_count(issuer)
        /\ \A k \in 1..Len(offerItem[issuer]) :
            /\ offerItem[issuer][k].issuer = issuer
            /\ offer_items_after_removal(get_offering_count(issuer), k - 1)
                 = 0..(get_offering_count(issuer) - 2)
            /\ Len(swap_remove(offerItem[issuer], k)) = get_offering_count(issuer) - 1
    /\ \A token \in Tokens :
        get_current_issuer(token) # None =>
            /\ get_current_issuer(token) \in Issuers
            /\ \E k \in 1..Len(offerItem[get_current_issuer(token)]) :
                /\ offerItem[get_current_issuer(token)][k].token = token
                /\ offerItem[get_current_issuer(token)][k].issuer = get_current_issuer(token)
            /\ get_offering(get_current_issuer(token), token) # <<>>

C37_witness ==
    /\ last.op = "accept_issuer_transfer" /\ last.result = "Ok"
    /\ get_current_issuer("T") = "J" /\ get_current_issuer("U") = "I"
    /\ Len(offerItem["I"]) = 1 /\ offerItem["I"][1].token = "U"
    /\ Len(offerItem["J"]) = 1 /\ offerItem["J"][1].token = "T"

\* ------------------------------------------------------------ period-index integrity
\* C38: in every reachable state, for every token, the period entries sit at
\* the indices 0 .. count - 1, their period ids are pairwise distinct, each
\* has a recorded revenue and deposit timestamp (so that the claim loop never
\* reads a missing record), and the deposit timestamps do not decrease along
\* the index; the count is 0 at first, grows by one with every successful
\* deposit of the token and changes in no other step.
C38_period_index_intact ==
    /\ [](\A token \in Tokens :
            LET n == get_period_count(token)
                entry == periodEntry[token]
            IN  /\ DOMAIN entry = 1..n
                /\ \A i, j \in 1..n : i # j => entry[i] # entry[j]
                /\ \A i \in 1..n :
                    /\ entry[i] \in DOMAIN periodRevenue[token]
                    /\ entry[i] \in DOMAIN periodDepositTime[token]
                /\ \A i, j \in 1..n :
                    i < j => periodDepositTime[token][entry[i]]
                                <= periodDepositTime[token][entry[j]]
                /\ Cardinality(DOMAIN periodRevenue[token]) = n
                /\ \A holder \in Holders, max_periods \in LedgerBatch :
                    ~claim_scan(token, holder, max_periods).trap)
    /\ [][IF last'.op = "deposit_revenue" /\ last'.result = "Ok" /\ now' = now
          THEN /\ get_period_count("T")' = get_period_count("T") + 1
               /\ get_period_count("U")' = get_period_count("U")
          ELSE \A token \in Tokens : get_period_count(token)' = get_period_count(token)]_vars

C38_witness ==
    /\ last.op = "deposit_revenue" /\ last.result = "Ok"
    /\ periodEntry["T"] = <<2, 1>>
    /\ periodDepositTime["T"][2] = 0
    /\ periodDepositTime["T"][1] = 1

\* ------------------------------------------------------------ guardrails across an issuer transfer
\* C39 as stated: after an accepted issuer transfer the concentration limit,
\* the last reported concentration, the rounding mode and the audit summary
\* read for (new issuer, token) are those read for (old issuer, token) just
\* before, so that a report the guardrail rejected for the old issuer is
\* rejected for the new one; the token-keyed state is unchanged.
C39_as_stated ==
    [][(last'.op = "accept_issuer_transfer" /\ last'.result = "Ok") =>
        LET old_issuer == get_current_issuer("T")
            new_issuer == pendingIssuerTransfer["T"]
        IN  /\ concentrationLimit'[new_issuer, "T"] = concentrationLimit[old_issuer, "T"]
            /\ currentConcentration'[new_issuer, "T"] = currentConcentration[old_issuer, "T"]
            /\ roundingMode'[new_issuer, "T"] = roundingMode[old_issuer, "T"]
            /\ auditSummary'[new_issuer, "T"] = auditSummary[old_issuer, "T"]
            /\ concentration_exceeded(old_issuer, "T")
                    => concentration_exceeded(new_issuer, "T")'
            /\ UNCHANGED <<claimDelaySecs, holders, ledger, blacklist>>]_vars

\* ------------------------------------------------------------ the audit summary
\* The sum of the amounts stored in a report map for the given periods.
RECURSIVE reported_total(_, _)
reported_total(reports, periods) ==
    IF periods = {} THEN 0
    ELSE LET p == CHOOSE q \in periods : TRUE
         IN  saturating_add_i128(reports[p].amount,
                                 reported_total(reports, periods \ {p}))

\* C40 as stated: for every (issuer, token) the summary's report_count is the
\* number of periods in the revenue-report map and its total_revenue the sum
\* of the amounts stored for them: a duplicate without override leaves the
\* summary unchanged and an override replaces the old amount in the total.
C40_as_stated ==
    \A issuer \in Issuers, token \in Tokens :
        LET reports == revenueReports[issuer, token]
            summary == audit_summary_of(issuer, token)
        IN  /\ summary.report_count = Cardinality(DOMAIN reports)
            /\ summary.total_revenue = reported_total(reports, DOMAIN reports)

=============================================================================
